---- MODULE Spec2Model ----
(***************************************************************************)
(* Model of the ingestion pipeline of obsidian-llm: the durable            *)
(* single-flight event queue of fileProcessing.ts (handleFileEvent,        *)
(* saveQueue, loadQueue, recoverVaultWatchQueue), the per-event handlers   *)
(* (processFile, deleteFile) and the vector store update of vectorStore.ts *)
(* (storeChunks, cleanupOrphanedVectors), its lock with the 5000 ms timer  *)
(* (acquireLock, releaseLock, optimizeVectorStore) and the cache files of  *)
(* cache.ts (saveCache, loadCache); beside the pipeline, chunkFile and     *)
(* embedChunks of chunker.ts, searchContent of search.ts, cleanupBackups   *)
(* and the side text files of vectorStore.ts, waitForSlot of               *)
(* rateLimiter.ts, retryWithBackoff of util.ts and streamFromOllama of     *)
(* ollama.ts, each under a specification of its own.                       *)
(*                                                                         *)
(* Strings are sequences of tokens, so that String.startsWith and          *)
(* path.relative are computed and not assumed: "/cwd/vault/a.md" is        *)
(* <<"/cwd/", "vault/a.md">>, the record id "vault/a.md::1" is             *)
(* <<"vault/a.md", "::", "1">>.                                            *)
(***************************************************************************)
EXTENDS Integers, Sequences, FiniteSets, TLC

VARIABLES
    isProcessingFile,  \* fileProcessing.ts: the busy flag
    fileQueue,         \* fileProcessing.ts: the in-memory queue
    queueFile,         \* the durable queue file .queue.json
    writes,            \* writeFile calls of saveQueue that have not completed
    immediates,        \* callbacks scheduled with setImmediate, oldest first
    inFlight,          \* handleFileEvent calls inside the try body
    pcMain,            \* position of main(): recover, recovering, watching
    files,             \* the vault: document -> file on disk
    cache,             \* the persisted change cache .cache.json
    index,             \* ids of the records held by the vector index
    deleteFails,       \* the index raises on deleteItem inside an update
    order,             \* history: entries handed to handle, not yet started
    arrived,           \* history: some event arrived after the recovery
    recovered,         \* history: the queue read back by recoverQueue
    startedLog,        \* history: entries started since the recovery
    last,              \* history: what the last completed event did
    vectorStoreLock,         \* vectorStore.ts: the lock flag
    vectorStoreLockTimeout,  \* vectorStore.ts: the timer that frees the lock
    update,            \* the index: the call whose update is open, or 0
    operationCount,    \* vectorStore.ts: mutations since the last rebuild
    storeCalls,        \* the calls of storeChunks: position and locals
    lockOwner,         \* history: the operation the lock was last given to
    modifiedTimes,     \* the index: metadata.modifiedTime of the records that have one
    now,               \* Date.now() as cleanupOrphanedVectors reads it
    storedAt,          \* history: when storeChunks wrote each record
    swept,             \* history: the last run of cleanupOrphanedVectors
    cacheLock,         \* cache.ts: the lock flag
    cacheFile,         \* the file .cache.json
    tmpFile,           \* the file .cache.json.tmp
    bakFile,           \* the file .cache.json.bak
    cacheCalls,        \* the calls of saveCache and loadCache: position and locals
    persisted,         \* history: the cache of the last saveCache that returned
    embed,             \* the call of embedChunks: position, locals and results
    chunker,           \* the call of chunkFile: position, accumulator and result
    search,            \* the call of searchContent: position, candidates and result
    backups,           \* the call of cleanupBackups and the backup directory
    texts,             \* the side text files and the documentId of the index records
    limiter,           \* rateLimiter.ts: the timestamps, the waiting callers and the clock
    retry,             \* the call of retryWithBackoff: config, position, locals and waits
    stream             \* the call of streamFromOllama: the response, what is unread, the tokens forwarded

vars == <<isProcessingFile, fileQueue, queueFile, writes, immediates,
          inFlight, pcMain, files, cache, index, deleteFails, order, arrived,
          recovered, startedLog, last, vectorStoreLock, vectorStoreLockTimeout,
          update, operationCount, storeCalls, lockOwner, modifiedTimes, now,
          storedAt, swept, cacheLock, cacheFile, tmpFile, bakFile, cacheCalls,
          persisted, embed, chunker, search, backups, texts, limiter, retry,
          stream>>

queueVars == <<isProcessingFile, fileQueue, queueFile, writes, immediates,
               inFlight, pcMain>>
storeVars == <<cache, index, deleteFails>>
histVars  == <<order, arrived, recovered, startedLog, last>>
lockVars  == <<vectorStoreLock, vectorStoreLockTimeout, update, operationCount,
               storeCalls, lockOwner>>
sweepVars == <<modifiedTimes, now, storedAt, swept>>
cacheFileVars == <<cacheLock, cacheFile, tmpFile, bakFile, cacheCalls, persisted>>
sideVars  == <<embed, chunker, search, backups, texts, limiter, retry,
               stream>>

----------------------------------------------------------------------------
(* Bounds *)

MaxOutstanding == 2   \* entries handed to handle and not yet started
MaxWrites      == 2   \* queue-file writes in flight
MaxSaved       == 2   \* length of the durable queue found at startup
MaxOperations  == 3   \* operationCount away from the optimization threshold
MaxHalfDays    == 4   \* how far Date.now() advances, in half days
MaxChunks      == 2   \* chunks handed to embedChunks
MaxPasses      == 3   \* passes of embedChunks over its failed chunks
MaxDocLen      == 6   \* characters of a document handed to chunkFile
MaxRuns        == 4   \* runs of candidates above and below the score floor
MaxBackupDirs  == 9   \* backups in the backup directory
MaxSlotCalls   == 16  \* calls of waitForSlot
MaxSlotTicks   == 3   \* half time windows that pass in the rate limiter
MaxConfigRetries == 4 \* maxRetries of the configs of retryWithBackoff
MaxTokens      == 3   \* tokens of a streamed response

----------------------------------------------------------------------------
(* Strings and paths *)

Range(s) == {s[i] : i \in 1..Len(s)}

\* String.prototype.startsWith
StartsWith(s, p) == Len(p) <= Len(s) /\ SubSeq(s, 1, Len(p)) = p

Cwd  == <<"/cwd/">>
RelA == <<"vault/a.md">>
RelB == <<"vault/b.md">>
AbsA == Cwd \o RelA

Docs == {RelA, RelB}

\* path.relative(process.cwd(), filePath)
Relative(p) == IF StartsWith(p, Cwd) THEN SubSeq(p, Len(Cwd) + 1, Len(p)) ELSE p

IndexToken(i) == <<"0", "1", "2", "3">>[i + 1]

\* `${relativePath}::${index}`
ChunkId(filePath, i) == Relative(filePath) \o <<"::", IndexToken(i)>>

\* vector.id.split("::")[0]
IdPath(id) == SubSeq(id, 1, Len(id) - 2)

\* the record id belongs to the document doc (a relative path)
BelongsTo(id, doc) == Len(id) = Len(doc) + 2 /\ IdPath(id) = doc /\ id[Len(doc) + 1] = "::"

----------------------------------------------------------------------------
(* The vault *)

NoFile == [exists |-> FALSE, content |-> 0, mtime |-> 0]

Contents == {1, 2}
Mtimes   == {1, 2}

FileStates == {NoFile} \cup [exists : {TRUE}, content : Contents, mtime : Mtimes]

\* chunkFile then embedChunks: content 1 has two chunks, content 2 has one
NumChunks(content) == IF content = 1 THEN 2 ELSE 1

\* crypto.createHash("sha256").update(fileContent).digest("hex")
ContentHash(content) == <<"sha256", content>>

----------------------------------------------------------------------------
(* Queue entries and the queue file *)

Entry(ev, p) == [event |-> ev, filePath |-> p]

NoEntry == [event |-> "none", filePath |-> <<>>]

\* JSON.stringify(fileQueue) as written by saveQueue
Stringify(q) == [kind |-> "json", data |-> q]

\* no queue file, and a queue file cut short after its first entry, which
\* JSON.parse rejects
MissingFile == [kind |-> "missing", data |-> <<>>]
CorruptFile == [kind |-> "corrupt", data |-> <<Entry("add", <<"vault/a.md">>)>>]

\* loadQueue: a file that cannot be read or parsed is an empty queue
LoadQueue(f) == IF f.kind = "json" THEN f.data ELSE <<>>

\* what fileQueue.shift() leaves in the queue
ShiftKeepsHead(q) == q

Shift(q) == Tail(q)

RECURSIVE RemoveFirst(_, _)
RemoveFirst(s, x) ==
    IF s = <<>> THEN <<>>
    ELSE IF Head(s) = x THEN Tail(s)
    ELSE <<Head(s)>> \o RemoveFirst(Tail(s), x)

----------------------------------------------------------------------------
(* vectorStore.ts *)

MaxOrphanedAge == 86400000

\* cleanupOrphanedVectors: now - (metadata.modifiedTime ?? now); mt holds the
\* modifiedTime of the records whose metadata has one, t is Date.now()
VectorAge(id, mt, t) == t - (IF id \in DOMAIN mt THEN mt[id] ELSE t)

FileExistsNever(p, fs) == FALSE

\* access(filePath) on the prefix of a record id, resolved against the cwd
FileExists(p, fs) == Relative(p) \in DOMAIN fs /\ fs[Relative(p)].exists

\* getAllVectorIds
GetAllVectorIds(c) == UNION {Range(c[k].vectorIds) : k \in DOMAIN c}

\* cleanupOrphanedVectors: the records left in the index
CleanupOrphanedVectors(idx, c, fs, mt, t) ==
    idx \ {id \in idx : /\ id \notin GetAllVectorIds(c)
                        /\ ~FileExists(IdPath(id), fs)
                        /\ ~(VectorAge(id, mt, t) < MaxOrphanedAge)}

\* the metadata left to the records idx: storeChunks writes documentId only
\* (lines 421-427), so a record it writes has no modifiedTime
Unstamped(mt, ids) == [id \in DOMAIN mt \ ids |-> mt[id]]

Stamps(mt, idx) == [id \in DOMAIN mt \cap idx |-> mt[id]]

\* when storeChunks wrote the records of idx that it wrote: ids at t
Restamp(sa, idx, ids, t) ==
    [id \in (DOMAIN sa \cup ids) \cap idx |-> IF id \in ids THEN t ELSE sa[id]]

\* storeChunks: existingVectors.filter((v) => v.id.startsWith(filePath))
ExistingIds(filePath, idx) == {id \in idx : StartsWith(id, filePath)}

\* storeChunks(filePath, embeddedChunks) for n embedded chunks; failDel are
\* the old records whose deleteItem raised (caught and logged)
StoreChunks(filePath, n, idx, c, fs, failDel, mt, t) ==
    LET existing  == ExistingIds(filePath, idx)
        removed   == existing \ failDel
        afterDel  == idx \ removed
        newIds    == [i \in 1..n |-> ChunkId(filePath, i - 1)]
        replaced  == {i \in 1..n : newIds[i] \in afterDel}
        inserted  == afterDel \cup Range(newIds)
        written   == Unstamped(mt, removed \cup Range(newIds))
        kept      == CleanupOrphanedVectors(inserted, c, fs, written, t)
    IN  [ids       |-> newIds,
         index     |-> kept,
         inserted  |-> inserted,
         modifiedTimes |-> Stamps(written, kept),
         mutations |-> Cardinality(removed) + n + Cardinality(replaced)]

----------------------------------------------------------------------------
(* fileProcessing.ts: the handlers of one event *)

Restrict(c, keys) == [k \in keys |-> c[k]]

Put(c, key, rec) == [k \in DOMAIN c \cup {key} |-> IF k = key THEN rec ELSE c[k]]

NoResult(c, idx, mt) ==
    [ok |-> TRUE, cache |-> c, index |-> idx, branch |-> "none",
     embedded |-> 0, mutations |-> 0, stored |-> FALSE, ids |-> <<>>,
     inserted |-> idx, modifiedTimes |-> mt]

\* deleteFile(filePath)
DeleteFile(filePath, c, idx, mt) ==
    LET deleted == {k \in DOMAIN c : StartsWith(k, filePath)}
    IN  [NoResult(Restrict(c, DOMAIN c \ deleted), idx \ deleted, Unstamped(mt, deleted))
            EXCEPT !.branch = "delete",
                   !.mutations = Cardinality(idx \cap deleted)]

SameContentNever(rec, hash) == FALSE

\* processFile: cachedFile.contentHash === contentHash
SameContent(rec, hash) == rec.contentHash = hash

\* processFile(filePath)
ProcessFile(filePath, c, idx, fs, failDel, mt, t) ==
    LET file == fs[Relative(filePath)]
        hash == ContentHash(file.content)
        cached == filePath \in DOMAIN c
        st == StoreChunks(filePath, NumChunks(file.content), idx, c, fs, failDel, mt, t)
    IN  IF ~file.exists
        THEN [NoResult(c, idx, mt) EXCEPT !.ok = FALSE, !.branch = "error"]
        ELSE IF cached /\ c[filePath].modifiedTime = file.mtime
                       /\ SameContent(c[filePath], hash)
        THEN [NoResult(c, idx, mt) EXCEPT !.branch = "skip"]
        ELSE IF cached /\ SameContent(c[filePath], hash)
        THEN [NoResult(Put(c, filePath, [c[filePath] EXCEPT !.modifiedTime = file.mtime]), idx, mt)
                 EXCEPT !.branch = "touch"]
        ELSE [ok |-> TRUE,
              cache |-> Put(c, filePath, [contentHash |-> hash, vectorIds |-> st.ids,
                                          modifiedTime |-> file.mtime]),
              index |-> st.index, branch |-> "index",
              embedded |-> NumChunks(file.content), mutations |-> st.mutations,
              stored |-> TRUE, ids |-> st.ids,
              inserted |-> st.inserted, modifiedTimes |-> st.modifiedTimes]

\* the switch of handleFileEvent: add, change (delete then add), unlink
ProcessEvent(e, c, idx, fs, failDel, mt, t) ==
    IF e.event = "add" THEN ProcessFile(e.filePath, c, idx, fs, failDel, mt, t)
    ELSE IF e.event = "unlink" THEN DeleteFile(e.filePath, c, idx, mt)
    ELSE IF e.event = "change"
    THEN LET d == DeleteFile(e.filePath, c, idx, mt)
             p == ProcessFile(e.filePath, d.cache, d.index, fs, failDel, d.modifiedTimes, t)
         IN  [p EXCEPT !.mutations = d.mutations + p.mutations]
    ELSE NoResult(c, idx, mt)

\* processFile(filePath) when its loadCache raised (lines 137-142) and the
\* loadCache of getAllVectorIds, called by cleanupOrphanedVectors at the end
\* of storeChunks, returned the persisted cache c: the handler works on {}
\* and saveCache writes what it holds. stat raises first for a missing file
ProcessFileLoadFailed(filePath, c, idx, fs, failDel, mt, t) ==
    LET file  == fs[Relative(filePath)]
        blank == ProcessFile(filePath, <<>>, idx, fs, failDel, mt, t)
        st    == StoreChunks(filePath, NumChunks(file.content), idx, c, fs, failDel, mt, t)
    IN  IF blank.branch = "index"
        THEN [blank EXCEPT !.index = st.index, !.inserted = st.inserted,
                           !.modifiedTimes = st.modifiedTimes]
        ELSE [blank EXCEPT !.cache = c]

----------------------------------------------------------------------------
(* fileProcessing.ts: the queue *)

\* a writeFile of saveQueue: the snapshot JSON.stringify took when it was
\* called and what the caller does once the await returns
Write(q, cont, e) == [snap |-> q, cont |-> cont, entry |-> e]

IsBusyNever == FALSE

IsBusyAlways == TRUE

\* handleFileEvent: the test of the busy flag
IsBusy == isProcessingFile

\* handleFileEvent(e) up to its first await: either the entry is queued and
\* saveQueue is called, or the busy flag is taken and the try body is entered
HandleFileEvent(e, q, ws, fl) ==
    IF IsBusy
    THEN [queue |-> Append(q, e), writes |-> Append(ws, Write(Append(q, e), "none", NoEntry)),
          busy |-> isProcessingFile, inFlight |-> fl, started |-> FALSE]
    ELSE [queue |-> q, writes |-> ws,
          busy |-> TRUE, inFlight |-> Append(fl, e), started |-> TRUE]

\* history kept with a call of handleFileEvent(e): ord is the submission
\* order including e, ext tells whether e is a new event
Record(h, e, ord, ext) ==
    /\ order' = IF h.started THEN RemoveFirst(ord, e) ELSE ord
    /\ arrived' = (arrived \/ ext)
    /\ recovered' = IF arrived' THEN <<>> ELSE recovered
    /\ startedLog' = IF arrived' THEN <<>>
                     ELSE IF h.started THEN Append(startedLog, e) ELSE startedLog

\* recoverVaultWatchQueue up to its await of saveQueue
RecoverVaultWatchQueue ==
    /\ pcMain = "recover"
    /\ LET savedQueue == LoadQueue(queueFile)
       IN  IF Len(savedQueue) > 0
           THEN /\ fileQueue' = Shift(fileQueue \o savedQueue)
                /\ writes' = Append(writes, Write(fileQueue', "recover", Head(fileQueue \o savedQueue)))
                /\ pcMain' = "recovering"
                /\ recovered' = savedQueue
                /\ order' = savedQueue
           ELSE /\ pcMain' = "watching"
                /\ UNCHANGED <<fileQueue, writes, recovered, order>>
    /\ UNCHANGED <<isProcessingFile, queueFile, immediates, inFlight, files,
                   storeVars, arrived, startedLog, last>>
    /\ UNCHANGED <<lockVars, sweepVars, cacheFileVars, sideVars>>

\* a writeFile of saveQueue completes; the caller resumes: nothing more for
\* an enqueue, setImmediate for the finally phase, handleFileEvent for the
\* recovery
WriteDone(i) ==
    /\ i \in 1..Len(writes)
    /\ LET w    == writes[i]
           rest == SubSeq(writes, 1, i - 1) \o SubSeq(writes, i + 1, Len(writes))
           h    == HandleFileEvent(w.entry, fileQueue, rest, inFlight)
       IN  /\ queueFile' = Stringify(w.snap)
           /\ IF w.cont = "recover"
              THEN /\ fileQueue' = h.queue
                   /\ writes' = h.writes
                   /\ isProcessingFile' = h.busy
                   /\ inFlight' = h.inFlight
                   /\ pcMain' = "watching"
                   /\ Record(h, w.entry, order, FALSE)
                   /\ UNCHANGED immediates
              ELSE /\ writes' = rest
                   /\ immediates' = IF w.cont = "immediate"
                                    THEN Append(immediates, w.entry) ELSE immediates
                   /\ UNCHANGED <<fileQueue, isProcessingFile, inFlight, pcMain,
                                  order, arrived, recovered, startedLog>>
    /\ UNCHANGED <<files, storeVars, last, lockVars, sweepVars, cacheFileVars, sideVars>>

\* the watcher or the startup scan calls handleFileEvent(e)
Watch(e, admit) ==
    /\ pcMain = "watching"
    /\ admit
    /\ LET h == HandleFileEvent(e, fileQueue, writes, inFlight)
       IN  /\ fileQueue' = h.queue
           /\ writes' = h.writes
           /\ isProcessingFile' = h.busy
           /\ inFlight' = h.inFlight
           /\ Record(h, e, Append(order, e), TRUE)
    /\ UNCHANGED <<queueFile, immediates, pcMain, files, storeVars, last>>
    /\ UNCHANGED <<lockVars, sweepVars, cacheFileVars, sideVars>>

\* the callback of setImmediate calls handleFileEvent(nextFile)
RunImmediate ==
    /\ immediates # <<>>
    /\ LET e == Head(immediates)
           h == HandleFileEvent(e, fileQueue, writes, inFlight)
       IN  /\ fileQueue' = h.queue
           /\ writes' = h.writes
           /\ isProcessingFile' = h.busy
           /\ inFlight' = h.inFlight
           /\ Record(h, e, order, FALSE)
    /\ immediates' = Tail(immediates)
    /\ UNCHANGED <<queueFile, pcMain, files, storeVars, last>>
    /\ UNCHANGED <<lockVars, sweepVars, cacheFileVars, sideVars>>

\* the try body of handleFileEvent runs for inFlight[i], its error is caught
\* and logged, and the finally phase runs up to its await of saveQueue; when
\* the index raises on deleteItem, storeChunks catches and logs each failure
Complete(i, admit) ==
    /\ i \in 1..Len(inFlight)
    /\ admit
    /\ LET e == inFlight[i]
           r == ProcessEvent(e, cache, index, files, IF deleteFails THEN index ELSE {},
                             modifiedTimes, now)
       IN  /\ cache' = r.cache
           /\ index' = r.index
           /\ modifiedTimes' = r.modifiedTimes
           /\ storedAt' = Restamp(storedAt, r.index,
                                   IF r.stored THEN Range(r.ids) ELSE {}, now)
           /\ swept' = r.inserted \ r.index
           /\ last' = [event |-> e.event, filePath |-> e.filePath, ok |-> r.ok,
                       branch |-> r.branch, embedded |-> r.embedded,
                       mutations |-> r.mutations, stored |-> r.stored, ids |-> r.ids]
    /\ inFlight' = SubSeq(inFlight, 1, i - 1) \o SubSeq(inFlight, i + 1, Len(inFlight))
    /\ isProcessingFile' = FALSE
    /\ IF Len(fileQueue) > 0
       THEN /\ fileQueue' = Shift(fileQueue)
            /\ writes' = Append(writes, Write(fileQueue', "immediate", Head(fileQueue)))
       ELSE UNCHANGED <<fileQueue, writes>>
    /\ UNCHANGED <<queueFile, immediates, pcMain, files, deleteFails, order,
                   arrived, recovered, startedLog>>
    /\ UNCHANGED <<lockVars, now, cacheFileVars, sideVars>>

\* the same for an add event whose loadCache raises: readFile of the cache
\* file fails once (lines 150-168 of cache.ts rethrow what is not ENOENT)
CompleteLoadFailed(i, admit) ==
    /\ i \in 1..Len(inFlight)
    /\ admit
    /\ inFlight[i].event = "add"
    /\ LET e == inFlight[i]
           r == ProcessFileLoadFailed(e.filePath, cache, index, files,
                                      IF deleteFails THEN index ELSE {},
                                      modifiedTimes, now)
       IN  /\ cache' = r.cache
           /\ index' = r.index
           /\ modifiedTimes' = r.modifiedTimes
           /\ storedAt' = Restamp(storedAt, r.index,
                                   IF r.stored THEN Range(r.ids) ELSE {}, now)
           /\ swept' = r.inserted \ r.index
           /\ last' = [event |-> e.event, filePath |-> e.filePath, ok |-> r.ok,
                       branch |-> r.branch, embedded |-> r.embedded,
                       mutations |-> r.mutations, stored |-> r.stored, ids |-> r.ids]
    /\ inFlight' = SubSeq(inFlight, 1, i - 1) \o SubSeq(inFlight, i + 1, Len(inFlight))
    /\ isProcessingFile' = FALSE
    /\ IF Len(fileQueue) > 0
       THEN /\ fileQueue' = Shift(fileQueue)
            /\ writes' = Append(writes, Write(fileQueue', "immediate", Head(fileQueue)))
       ELSE UNCHANGED <<fileQueue, writes>>
    /\ UNCHANGED <<queueFile, immediates, pcMain, files, deleteFails, order,
                   arrived, recovered, startedLog>>
    /\ UNCHANGED <<lockVars, now, cacheFileVars, sideVars>>

\* the user creates, edits, touches or removes a document of the vault
EditFile(d, f) ==
    /\ pcMain = "watching"
    /\ files[d] # f
    /\ files' = [files EXCEPT ![d] = f]
    /\ UNCHANGED <<queueVars, storeVars, histVars>>
    /\ UNCHANGED <<lockVars, sweepVars, cacheFileVars, sideVars>>

----------------------------------------------------------------------------
(* vectorStore.ts: the lock, and storeChunks one await at a time           *)
(*                                                                         *)
(* storeChunks is exported and its lock exists for callers that overlap,   *)
(* so it is called here by two callers at once. Time passes in steps of    *)
(* TickMs; a timer fires when its time is up and a caller in the poll loop *)
(* of acquireLock looks at the lock every 100 ms, that is before the next  *)
(* step of time.                                                           *)

\* acquireLock(timeout = 5000)
LockTimeout == 5000

OptimizationThreshold == 100000

TickMs == LockTimeout \div 2

Procs == {1, 2}

\* vectorStoreLockTimeout: null, a pending timer with the time left to it,
\* or the handle of a timer that has fired
NoTimer == [state |-> "null", left |-> 0]

Pending(ms) == [state |-> "pending", left |-> ms]

Fired == [state |-> "fired", left |-> 0]

NoOwner == [proc |-> 0, op |-> "none"]

Owner(p, op) == [proc |-> p, op |-> op]

\* a call of processFile from line 183 on: pc is the await it stands at;
\* snapshot, hash and mtime are the cache, contentHash and modifiedTime that
\* processFile read before it called storeChunks; all is allVectors of
\* optimizeVectorStore; committed tells that endUpdate of line 460 returned;
\* result is "returned" or "threw" for the last call that ended
IdleCall == [pc |-> "idle", filePath |-> <<>>, n |-> 0, waited |-> 0,
             snapshot |-> <<>>, hash |-> <<>>, mtime |-> 0, all |-> {},
             beginFailed |-> FALSE, committed |-> FALSE, result |-> "none"]

Finished(c, res) == [IdleCall EXCEPT !.committed = c.committed, !.result = res]

SetCall(p, c) == storeCalls' = [storeCalls EXCEPT ![p] = c]

\* generatedIds of the call c
GeneratedIds(c) == [i \in 1..c.n |-> ChunkId(c.filePath, i - 1)]

\* releaseLock
ReleaseLock ==
    /\ vectorStoreLock' = FALSE
    /\ vectorStoreLockTimeout' = NoTimer
    /\ lockOwner' = NoOwner

\* acquireLock, lines 79-84
TakeLock(p, op) ==
    /\ vectorStoreLock' = TRUE
    /\ vectorStoreLockTimeout' = Pending(LockTimeout)
    /\ lockOwner' = Owner(p, op)

\* acquireLock: the poll loop is left with the lock
Acquire(p, from, op, to) ==
    /\ storeCalls[p].pc = from
    /\ ~vectorStoreLock
    /\ TakeLock(p, op)
    /\ SetCall(p, [storeCalls[p] EXCEPT !.pc = to, !.waited = 0])

TimedOutEarly(p, from) ==
    /\ storeCalls[p].pc = from
    /\ vectorStoreLock
    /\ storeCalls[p].waited >= TickMs

\* acquireLock: Date.now() - start > timeout while the lock is held
TimedOut(p, from) ==
    /\ storeCalls[p].pc = from
    /\ vectorStoreLock
    /\ storeCalls[p].waited > LockTimeout

\* what these steps leave alone
outsideStore == <<queueVars, files, deleteFails, histVars, now, storedAt,
                  cacheFileVars, sideVars>>

lockState == <<vectorStoreLock, vectorStoreLockTimeout, lockOwner>>

\* the counter is held below MaxOperations, or around the threshold
CountRoom ==
    \/ operationCount < MaxOperations
    \/ /\ operationCount >= OptimizationThreshold - 2
       /\ operationCount < OptimizationThreshold + MaxOperations

\* processFile(filePath) reaches line 183 and calls storeChunks
CallStore(p, filePath) ==
    /\ storeCalls[p].pc = "idle"
    /\ CountRoom
    /\ ProcessFile(filePath, cache, index, files, {}, modifiedTimes, now).branch = "index"
    /\ LET file == files[Relative(filePath)]
       IN  SetCall(p, [IdleCall EXCEPT !.pc = "acquire", !.filePath = filePath,
                                       !.n = NumChunks(file.content),
                                       !.snapshot = cache,
                                       !.hash = ContentHash(file.content),
                                       !.mtime = file.mtime])
    /\ UNCHANGED <<lockState, update, operationCount, cache, index,
                   modifiedTimes, swept, outsideStore>>

\* storeChunks, line 363
StoreAcquire(p) ==
    /\ Acquire(p, "acquire", "store", "begin")
    /\ UNCHANGED <<update, operationCount, cache, index, modifiedTimes, swept,
                   outsideStore>>

\* storeChunks, lines 364-370: the throw is outside the try, no finally runs
StoreAcquireTimeout(p) ==
    /\ TimedOut(p, "acquire")
    /\ SetCall(p, Finished(storeCalls[p], "threw"))
    /\ UNCHANGED <<lockState, update, operationCount, cache, index,
                   modifiedTimes, swept, outsideStore>>

\* storeChunks, line 390: beginUpdate raises when an update is open, and the
\* finally of line 457 calls endUpdate
BeginUpdate(p) ==
    /\ storeCalls[p].pc = "begin"
    /\ IF update # 0
       THEN /\ SetCall(p, [storeCalls[p] EXCEPT !.pc = "end", !.beginFailed = TRUE])
            /\ UNCHANGED update
       ELSE /\ SetCall(p, [storeCalls[p] EXCEPT !.pc = "list"])
            /\ update' = p
    /\ UNCHANGED <<lockState, operationCount, cache, index, modifiedTimes,
                   swept, outsideStore>>

\* storeChunks, lines 393-409
DeleteExisting(p) ==
    /\ storeCalls[p].pc = "list"
    /\ LET removed == ExistingIds(storeCalls[p].filePath, index)
                          \ (IF deleteFails THEN index ELSE {})
       IN  /\ index' = index \ removed
           /\ modifiedTimes' = Unstamped(modifiedTimes, removed)
    /\ SetCall(p, [storeCalls[p] EXCEPT !.pc = "insert"])
    /\ storedAt' = Restamp(storedAt, index', {}, now)
    /\ UNCHANGED <<lockState, update, operationCount, cache, swept, queueVars,
                   files, deleteFails, histVars, now, cacheFileVars, sideVars>>

\* storeChunks, lines 411-456: the side file and the record of every chunk
InsertChunks(p) ==
    /\ storeCalls[p].pc = "insert"
    /\ LET ids == Range(GeneratedIds(storeCalls[p]))
       IN  /\ index' = index \cup ids
           /\ modifiedTimes' = Unstamped(modifiedTimes, ids)
           /\ storedAt' = Restamp(storedAt, index', ids, now)
    /\ operationCount' = operationCount + storeCalls[p].n
    /\ SetCall(p, [storeCalls[p] EXCEPT !.pc = "end"])
    /\ UNCHANGED <<lockState, update, cache, swept, queueVars, files,
                   deleteFails, histVars, now, cacheFileVars, sideVars>>

\* storeChunks, lines 457-471: endUpdate closes the update that is open and
\* raises when none is; an error leaves through the finally of line 487
EndUpdate(p) ==
    /\ storeCalls[p].pc = "end"
    /\ update' = 0
    /\ IF storeCalls[p].beginFailed \/ update = 0
       THEN /\ ReleaseLock
            /\ SetCall(p, Finished(storeCalls[p], "threw"))
       ELSE /\ SetCall(p, [storeCalls[p] EXCEPT
                   !.pc = IF operationCount >= OptimizationThreshold
                          THEN "optAcquire" ELSE "cleanAcquire",
                   !.committed = TRUE])
            /\ UNCHANGED lockState
    /\ UNCHANGED <<operationCount, cache, index, modifiedTimes, swept,
                   outsideStore>>

\* optimizeVectorStore, line 198
OptAcquire(p) ==
    /\ Acquire(p, "optAcquire", "optimize", "optimize")
    /\ UNCHANGED <<update, operationCount, cache, index, modifiedTimes, swept,
                   outsideStore>>

\* optimizeVectorStore, lines 199-205, then the finally of storeChunks
OptAcquireTimeout(p) ==
    /\ TimedOut(p, "optAcquire")
    /\ ReleaseLock
    /\ SetCall(p, Finished(storeCalls[p], "threw"))
    /\ UNCHANGED <<update, operationCount, cache, index, modifiedTimes, swept,
                   outsideStore>>

\* optimizeVectorStore, lines 209-215
OptimizeDrop(p) ==
    /\ storeCalls[p].pc = "optimize"
    /\ IF update # 0
       THEN /\ ReleaseLock
            /\ SetCall(p, Finished(storeCalls[p], "threw"))
            /\ UNCHANGED <<update, index>>
       ELSE /\ update' = p
            /\ index' = {}
            /\ SetCall(p, [storeCalls[p] EXCEPT !.pc = "reinsert", !.all = index])
            /\ UNCHANGED lockState
    /\ UNCHANGED <<operationCount, cache, modifiedTimes, swept, outsideStore>>

\* optimizeVectorStore, lines 218-243
OptimizeReinsert(p) ==
    /\ storeCalls[p].pc = "reinsert"
    /\ index' = index \cup storeCalls[p].all
    /\ update' = 0
    /\ ReleaseLock
    /\ IF update = 0
       THEN /\ SetCall(p, Finished(storeCalls[p], "threw"))
            /\ UNCHANGED operationCount
       ELSE /\ SetCall(p, [storeCalls[p] EXCEPT !.pc = "cleanAcquire", !.all = {}])
            /\ operationCount' = 0
    /\ UNCHANGED <<cache, modifiedTimes, swept, outsideStore>>

\* optimizeVectorStore, lines 213-243: createIndex or an insertItem raises
\* when the records kept have been reinserted; the catch rethrows, endUpdate
\* of line 233 is not reached, and the finally of storeChunks runs as well
OptimizeFails(p, kept) ==
    /\ storeCalls[p].pc = "reinsert"
    /\ kept \subseteq storeCalls[p].all /\ kept # storeCalls[p].all
    /\ index' = index \cup kept
    /\ ReleaseLock
    /\ SetCall(p, Finished(storeCalls[p], "threw"))
    /\ UNCHANGED <<update, operationCount, cache, modifiedTimes, swept,
                   outsideStore>>

\* cleanupOrphanedVectors, line 121
CleanAcquire(p) ==
    /\ Acquire(p, "cleanAcquire", "cleanup", "cleanup")
    /\ UNCHANGED <<update, operationCount, cache, index, modifiedTimes, swept,
                   outsideStore>>

\* cleanupOrphanedVectors, lines 122-128, then the finally of storeChunks
CleanAcquireTimeout(p) ==
    /\ TimedOut(p, "cleanAcquire")
    /\ ReleaseLock
    /\ SetCall(p, Finished(storeCalls[p], "threw"))
    /\ UNCHANGED <<update, operationCount, cache, index, modifiedTimes, swept,
                   outsideStore>>

\* cleanupOrphanedVectors, lines 130-189; loaded tells whether loadCache of
\* getAllVectorIds returned. Then storeChunks returns generatedIds and
\* processFile writes the cache record (lines 185-195)
Cleanup(p, loaded) ==
    /\ storeCalls[p].pc = "cleanup"
    /\ ReleaseLock
    /\ IF loaded
       THEN /\ index' = CleanupOrphanedVectors(index, cache, files, modifiedTimes, now)
            /\ modifiedTimes' = Stamps(modifiedTimes, index')
            /\ swept' = index \ index'
            /\ cache' = Put(storeCalls[p].snapshot, storeCalls[p].filePath,
                            [contentHash |-> storeCalls[p].hash,
                             vectorIds |-> GeneratedIds(storeCalls[p]),
                             modifiedTime |-> storeCalls[p].mtime])
            /\ SetCall(p, Finished(storeCalls[p], "returned"))
       ELSE /\ SetCall(p, Finished(storeCalls[p], "threw"))
            /\ UNCHANGED <<index, modifiedTimes, swept, cache>>
    /\ storedAt' = Restamp(storedAt, index', {}, now)
    /\ UNCHANGED <<update, operationCount, queueVars, files, deleteFails,
                   histVars, now, cacheFileVars, sideVars>>

\* the callback of the timer of acquireLock, lines 80-83
TimerFires ==
    /\ vectorStoreLockTimeout = Pending(0)
    /\ vectorStoreLock' = FALSE
    /\ vectorStoreLockTimeout' = Fired
    /\ lockOwner' = NoOwner
    /\ UNCHANGED <<update, operationCount, storeCalls, cache, index,
                   modifiedTimes, swept, outsideStore>>

\* the caller is in the poll loop of acquireLock
Waiting(c) == c.pc \in {"acquire", "optAcquire", "cleanAcquire"}

\* TickMs pass: no timer is due, and every caller in the poll loop has
\* found the lock held and its own time not yet up
Tick ==
    /\ vectorStoreLockTimeout.state = "pending" \/ \E p \in Procs : Waiting(storeCalls[p])
    /\ vectorStoreLockTimeout # Pending(0)
    /\ \A p \in Procs : Waiting(storeCalls[p]) =>
           vectorStoreLock /\ storeCalls[p].waited <= LockTimeout
    /\ vectorStoreLockTimeout' =
           IF vectorStoreLockTimeout.state = "pending"
           THEN Pending(vectorStoreLockTimeout.left - TickMs)
           ELSE vectorStoreLockTimeout
    /\ storeCalls' = [p \in Procs |->
           IF Waiting(storeCalls[p])
           THEN [storeCalls[p] EXCEPT !.waited = @ + TickMs]
           ELSE storeCalls[p]]
    /\ UNCHANGED <<vectorStoreLock, lockOwner, update, operationCount, cache,
                   index, modifiedTimes, swept, outsideStore>>

\* the callback of setInterval, lines 40-43
ResetOperationCount ==
    /\ operationCount # 0
    /\ operationCount' = 0
    /\ UNCHANGED <<lockState, update, storeCalls, cache, index, modifiedTimes,
                   swept, outsideStore>>

\* deleteFile(filePath), called for unlink and change: it takes no lock
DeleteFileCall(filePath) ==
    /\ \E k \in DOMAIN cache : StartsWith(k, filePath)
    /\ LET r == DeleteFile(filePath, cache, index, modifiedTimes)
       IN  /\ cache' = r.cache
           /\ index' = r.index
           /\ modifiedTimes' = r.modifiedTimes
    /\ storedAt' = Restamp(storedAt, index', {}, now)
    /\ UNCHANGED <<lockVars, swept, queueVars, files, deleteFails, histVars,
                   now, cacheFileVars, sideVars>>

----------------------------------------------------------------------------
(* cache.ts: saveCache and loadCache one await at a time                   *)
(*                                                                         *)
(* The three files .cache.json, .cache.json.tmp and .cache.json.bak hold   *)
(* what was written to them. writeFile of the temporary file, the rename   *)
(* that commits it, the rename that makes the backup and the unlink of the *)
(* backup can each fail; the rename that restores the backup fails only    *)
(* when there is no backup file.                                           *)

Absent == [kind |-> "missing", data |-> <<>>]

\* a file cut short: JSON.parse rejects it
Truncated == [kind |-> "corrupt", data |-> <<>>]

\* the keys of c in the order of JSON.stringify, each with its entry
RECURSIVE Pairs(_, _)
Pairs(c, keys) ==
    IF keys = {} THEN <<>>
    ELSE LET k == CHOOSE x \in keys : \A y \in keys : Len(x) <= Len(y)
         IN  <<<<k, c[k]>>>> \o Pairs(c, keys \ {k})

\* JSON.stringify(cache, null, 2)
StringifyCache(c) == [kind |-> "json", data |-> Pairs(c, DOMAIN c)]

\* JSON.parse(data) as Cache
ParseCache(data) ==
    [k \in {data[i][1] : i \in 1..Len(data)} |->
        LET i == CHOOSE j \in 1..Len(data) : data[j][1] = k IN data[i][2]]

LoadCacheLenient(f) ==
    IF f.kind = "json" THEN [ok |-> TRUE, value |-> ParseCache(f.data)]
    ELSE [ok |-> TRUE, value |-> <<>>]

\* loadCache on the file f: the cache, {} for a missing file, or a throw
LoadCache(f) ==
    IF f.kind = "json" THEN [ok |-> TRUE, value |-> ParseCache(f.data)]
    ELSE IF f.kind = "missing" THEN [ok |-> TRUE, value |-> <<>>]
    ELSE [ok |-> FALSE, value |-> <<>>]

RecordA == [contentHash |-> ContentHash(1), vectorIds |-> <<ChunkId(RelA, 0)>>,
            modifiedTime |-> 1]

\* the caches handed to saveCache: {}, one record, two records
CacheValues == {<<>>, Put(<<>>, RelA, RecordA), Put(Put(<<>>, RelA, RecordA), AbsA, RecordA)}

\* a call of saveCache or loadCache: pc is the await it stands at, data the
\* cache to save, prior the cache file when the call took the lock, result
\* and value how the last call ended and what loadCache returned
IdleCacheCall == [pc |-> "idle", op |-> "none", data |-> <<>>, prior |-> Absent,
                  result |-> "none", value |-> <<>>]

Ended(res, v) == [IdleCacheCall EXCEPT !.result = res, !.value = v]

SetCacheCall(p, c) == cacheCalls' = [cacheCalls EXCEPT ![p] = c]

Unknown == [known |-> FALSE, value |-> <<>>]

Known(c) == [known |-> TRUE, value |-> c]

outsideCache == <<queueVars, files, storeVars, histVars, lockVars, sweepVars,
                  sideVars>>

\* cache.ts, line 83, and a disk without cache files
CacheFileStart ==
    /\ cacheLock = FALSE
    /\ cacheFile = Absent
    /\ tmpFile = Absent
    /\ bakFile = Absent
    /\ cacheCalls = [p \in Procs |-> IdleCacheCall]
    /\ persisted = Unknown

\* saveCache(c) is called
CallSave(p, c) ==
    /\ cacheCalls[p].pc = "idle"
    /\ SetCacheCall(p, [IdleCacheCall EXCEPT !.pc = "wait", !.op = "save", !.data = c])
    /\ UNCHANGED <<cacheLock, cacheFile, tmpFile, bakFile, persisted, outsideCache>>

\* loadCache() is called
CallLoad(p) ==
    /\ cacheCalls[p].pc = "idle"
    /\ SetCacheCall(p, [IdleCacheCall EXCEPT !.pc = "wait", !.op = "load"])
    /\ UNCHANGED <<cacheLock, cacheFile, tmpFile, bakFile, persisted, outsideCache>>

LockFreeAlways == TRUE

\* the test of the poll loop, lines 91 and 143
LockFree == ~cacheLock

\* the poll loop is left and the lock taken, lines 91-95 and 143-147
Enter(p) ==
    /\ cacheCalls[p].pc = "wait"
    /\ LockFree
    /\ cacheLock' = TRUE
    /\ SetCacheCall(p, [cacheCalls[p] EXCEPT
           !.pc = IF cacheCalls[p].op = "save" THEN "write" ELSE "read",
           !.prior = cacheFile])
    /\ persisted' = IF cacheCalls[p].op = "save" THEN Unknown ELSE persisted
    /\ UNCHANGED <<cacheFile, tmpFile, bakFile, outsideCache>>

\* saveCache, line 106: writeFile(tempPath) succeeds, raises and leaves a
\* file cut short, or returns with a file that is not what was written
WriteTemp(p, outcome) ==
    /\ cacheCalls[p].pc = "write"
    /\ tmpFile' = IF outcome = "ok" THEN StringifyCache(cacheCalls[p].data) ELSE Truncated
    /\ SetCacheCall(p, [cacheCalls[p] EXCEPT
           !.pc = IF outcome = "error" THEN "restore" ELSE "verify"])
    /\ UNCHANGED <<cacheLock, cacheFile, bakFile, persisted, outsideCache>>

\* saveCache, lines 108-113
Verify(p) ==
    /\ cacheCalls[p].pc = "verify"
    /\ SetCacheCall(p, [cacheCalls[p] EXCEPT
           !.pc = IF tmpFile = StringifyCache(cacheCalls[p].data)
                  THEN "backup" ELSE "restore"])
    /\ UNCHANGED <<cacheLock, cacheFile, tmpFile, bakFile, persisted, outsideCache>>

\* saveCache, lines 115-117: the error of the rename is dropped
Backup(p, ok) ==
    /\ cacheCalls[p].pc = "backup"
    /\ IF ok /\ cacheFile # Absent
       THEN bakFile' = cacheFile /\ cacheFile' = Absent
       ELSE UNCHANGED <<bakFile, cacheFile>>
    /\ SetCacheCall(p, [cacheCalls[p] EXCEPT !.pc = "commit"])
    /\ UNCHANGED <<cacheLock, tmpFile, persisted, outsideCache>>

\* saveCache, line 119
Commit(p, ok) ==
    /\ cacheCalls[p].pc = "commit"
    /\ IF ok
       THEN cacheFile' = tmpFile /\ tmpFile' = Absent
       ELSE UNCHANGED <<cacheFile, tmpFile>>
    /\ SetCacheCall(p, [cacheCalls[p] EXCEPT !.pc = IF ok THEN "unlink" ELSE "restore"])
    /\ UNCHANGED <<cacheLock, bakFile, persisted, outsideCache>>

\* saveCache, lines 120-122 and the finally of line 132: the error of the
\* unlink is dropped and saveCache returns
Unlink(p, ok) ==
    /\ cacheCalls[p].pc = "unlink"
    /\ bakFile' = IF ok THEN Absent ELSE bakFile
    /\ cacheLock' = FALSE
    /\ persisted' = Known(cacheCalls[p].data)
    /\ SetCacheCall(p, Ended("saved", <<>>))
    /\ UNCHANGED <<cacheFile, tmpFile, outsideCache>>

\* saveCache, lines 123-134: the backup is renamed back, the error is thrown
Restore(p) ==
    /\ cacheCalls[p].pc = "restore"
    /\ IF bakFile # Absent
       THEN cacheFile' = bakFile /\ bakFile' = Absent
       ELSE UNCHANGED <<cacheFile, bakFile>>
    /\ cacheLock' = FALSE
    /\ SetCacheCall(p, Ended("failed", <<>>))
    /\ UNCHANGED <<tmpFile, persisted, outsideCache>>

\* loadCache, lines 153-172
Read(p) ==
    /\ cacheCalls[p].pc = "read"
    /\ cacheLock' = FALSE
    /\ SetCacheCall(p, IF LoadCache(cacheFile).ok
                       THEN Ended("loaded", LoadCache(cacheFile).value)
                       ELSE Ended("threw", <<>>))
    /\ UNCHANGED <<cacheFile, tmpFile, bakFile, persisted, outsideCache>>

\* loadCache, lines 154 and 165-172: readFile of a file that is there raises
\* (EACCES, EIO), the error is not ENOENT and is thrown
ReadFails(p) ==
    /\ cacheCalls[p].pc = "read"
    /\ cacheFile # Absent
    /\ cacheLock' = FALSE
    /\ SetCacheCall(p, Ended("threw", <<>>))
    /\ UNCHANGED <<cacheFile, tmpFile, bakFile, persisted, outsideCache>>

\* the cache file is damaged from outside the program (an editor, the disk)
Damage ==
    /\ cacheFile.kind = "json"
    /\ cacheFile' = Truncated
    /\ persisted' = Unknown
    /\ UNCHANGED <<cacheLock, tmpFile, bakFile, cacheCalls, outsideCache>>

\* the process stops and is started again: the calls and the lock are gone,
\* the files stay, a temporary file being written may be cut short
Crash ==
    /\ \E p \in Procs : cacheCalls[p].pc # "idle"
    /\ cacheLock' = FALSE
    /\ cacheCalls' = [p \in Procs |->
           IF cacheCalls[p].pc = "idle" THEN cacheCalls[p] ELSE Ended("crashed", <<>>)]
    /\ \/ tmpFile' = tmpFile
       \/ /\ \E p \in Procs : cacheCalls[p].pc = "write"
          /\ tmpFile' = Truncated
    /\ persisted' = Unknown
    /\ UNCHANGED <<cacheFile, bakFile, outsideCache>>

----------------------------------------------------------------------------
(* chunker.ts: embedChunks, one call of the backend at a time              *)
(*                                                                         *)
(* The chunks of the input are numbered 1..n. The answer of the backend to *)
(* one fetch is a network error, a status that is not ok, a body that is   *)
(* not an embedding, or an embedding of some length.                       *)

VectorDimensions == 768

\* API_CONFIG.fallbackModels.length
FallbackCount == 0

\* retryWithBackoff, the default config
MaxRetries == 3

Responses ==
    {[kind |-> "network", dim |-> 0], [kind |-> "status", dim |-> 0],
     [kind |-> "malformed", dim |-> 0],
     [kind |-> "embedding", dim |-> VectorDimensions],
     [kind |-> "embedding", dim |-> VectorDimensions - 1]}

ValidateAnyDimensions(dim) == TRUE

\* validateVectorDimensions
ValidateVectorDimensions(dim) == dim = VectorDimensions

\* the operation handed to retryWithBackoff returns data.embedding
Accepted(resp) == resp.kind = "embedding" /\ ValidateVectorDimensions(resp.dim)

\* embedChunks: pc is idle, running, returned; n the number of input chunks;
\* pass the depth of the self-call; batch the chunks of this pass, pos the
\* one at hand, attempts and retry the counters of the two loops around the
\* fetch, failed the failedChunks of this pass; results the embedded chunks
\* in the order they are pushed; calls and valid are history: the fetches
\* made for each chunk and the chunks the backend gave a valid vector for
IdleEmbed ==
    [pc |-> "idle", n |-> 0, pass |-> 0, batch |-> <<>>, pos |-> 0,
     attempts |-> 0, retry |-> 0, failed |-> <<>>, results |-> <<>>,
     calls |-> <<>>, valid |-> {}]

\* embedChunks(chunks) with chunks.length = n
StartEmbed(n) ==
    IF n = 0 THEN [IdleEmbed EXCEPT !.pc = "returned"]
    ELSE [IdleEmbed EXCEPT !.pc = "running", !.n = n,
                           !.batch = [i \in 1..n |-> i], !.pos = 1,
                           !.calls = [i \in 1..n |-> 0]]

\* the for loop moves on; after the last chunk of the pass embedChunks
\* returns, or calls itself on the failed chunks and appends what it gets
NextChunk(e, failed) ==
    IF e.pos < Len(e.batch)
    THEN [e EXCEPT !.pos = e.pos + 1, !.attempts = 0, !.retry = 0, !.failed = failed]
    ELSE IF failed = <<>>
    THEN [e EXCEPT !.pc = "returned", !.attempts = 0, !.retry = 0]
    ELSE [e EXCEPT !.pass = e.pass + 1, !.batch = failed, !.pos = 1,
                   !.attempts = 0, !.retry = 0, !.failed = <<>>]

\* one fetch for the chunk at hand and what the loops do with its answer
EmbedStep(e, resp) ==
    LET c == e.batch[e.pos]
        counted == [e EXCEPT !.calls[c] = e.calls[c] + 1,
                             !.valid = IF resp.kind = "embedding"
                                          /\ resp.dim = VectorDimensions
                                       THEN e.valid \cup {c} ELSE e.valid]
    IN  IF Accepted(resp)
        THEN NextChunk([counted EXCEPT
                            !.results = Append(e.results, [chunk |-> c, dim |-> resp.dim])],
                       e.failed)
        ELSE IF e.retry < MaxRetries
        THEN [counted EXCEPT !.retry = e.retry + 1]
        ELSE IF e.attempts < FallbackCount
        THEN [counted EXCEPT !.attempts = e.attempts + 1, !.retry = 0]
        ELSE NextChunk(counted, Append(e.failed, c))

outsideEmbed == <<queueVars, files, storeVars, histVars, lockVars, sweepVars,
                  cacheFileVars, chunker, search, backups, texts, limiter,
                   retry, stream>>

\* embedChunks is called with n chunks
CallEmbed(n) ==
    /\ embed.pc \in {"idle", "returned"}
    /\ embed' = StartEmbed(n)
    /\ UNCHANGED outsideEmbed

\* the backend answers the fetch of the chunk at hand
Fetch(resp) ==
    /\ embed.pc = "running"
    /\ embed.pass < MaxPasses
    /\ embed' = EmbedStep(embed, resp)
    /\ UNCHANGED outsideEmbed

----------------------------------------------------------------------------
(* chunker.ts: chunkFile, one line of the document at a time               *)
(*                                                                         *)
(* A document is a sequence of the characters "#", "\n" and "x", a path a  *)
(* sequence of the tokens "vault/", "/", ".md" and names, so that split,   *)
(* startsWith, match(/^#+/), join and filter(Boolean) are computed.        *)

Hash == "#"

Newline == "\n"

\* the first position of sep in s, or 0
RECURSIVE IndexOf(_, _, _)
IndexOf(s, sep, from) ==
    IF from > Len(s) THEN 0
    ELSE IF s[from] = sep THEN from
    ELSE IndexOf(s, sep, from + 1)

\* String.prototype.split
RECURSIVE Split(_, _)
Split(s, sep) ==
    LET i == IndexOf(s, sep, 1)
    IN  IF i = 0 THEN <<s>>
        ELSE <<SubSeq(s, 1, i - 1)>> \o Split(SubSeq(s, i + 1, Len(s)), sep)

\* Array.prototype.join
RECURSIVE Join(_, _)
Join(parts, sep) ==
    IF parts = <<>> THEN <<>>
    ELSE IF Len(parts) = 1 THEN parts[1]
    ELSE parts[1] \o <<sep>> \o Join(Tail(parts), sep)

\* line.match(/^#+/)?.[0].length ?? 0
RECURSIVE HeadingLevel(_)
HeadingLevel(line) ==
    IF line # <<>> /\ Head(line) = Hash THEN 1 + HeadingLevel(Tail(line)) ELSE 0

\* part.replace(".md", "")
DropMd(part) ==
    LET i == IndexOf(part, ".md", 1)
    IN  IF i = 0 THEN part ELSE SubSeq(part, 1, i - 1) \o SubSeq(part, i + 1, Len(part))

\* chunkFile, lines 33-38
FileParts(filePath) ==
    LET rest  == Split(filePath, "vault/")
        parts == Split(rest[Len(rest)], "/")
    IN  Join([i \in 1..Len(parts) |-> DropMd(parts[i])], " > ")

ClosesDeeper(lastHeadingLevel, headingLevel) == lastHeadingLevel > headingLevel

\* the test of the while loop, line 55
Closes(lastHeadingLevel, headingLevel) == lastHeadingLevel >= headingLevel

\* chunkFile, lines 51-60: the headings popped before the push
RECURSIVE PopClosed(_, _)
PopClosed(headingStack, headingLevel) ==
    IF headingStack # <<>>
       /\ Closes(HeadingLevel(headingStack[Len(headingStack)]), headingLevel)
    THEN PopClosed(SubSeq(headingStack, 1, Len(headingStack) - 1), headingLevel)
    ELSE headingStack

\* the callback of reduce, lines 46-69
ReduceLine(acc, line, fileParts) ==
    LET chunks == IF acc.chunks = <<>> THEN <<<<>>>> ELSE acc.chunks
    IN  IF line # <<>> /\ Head(line) = Hash
        THEN LET stack == Append(PopClosed(acc.headingStack, HeadingLevel(line)), line)
             IN  [headingStack |-> stack,
                  chunks |-> Append(chunks, fileParts \o <<Newline>> \o Join(stack, Newline))]
        ELSE [headingStack |-> acc.headingStack,
              chunks |-> [chunks EXCEPT ![Len(chunks)] = @ \o <<Newline>> \o line]]

TruthyAlways(s) == TRUE

\* Boolean(s) of a string
Truthy(s) == s # <<>>

\* .chunks.filter(Boolean)
FilterChunks(chunks) == SelectSeq(chunks, Truthy)

\* chunkFile: pc is idle, reducing, returned; lines the split document, pos
\* the line at hand, acc the accumulator of reduce, result what is returned
IdleChunker ==
    [pc |-> "idle", filePath |-> <<>>, content |-> <<>>, lines |-> <<>>, pos |-> 0,
     acc |-> [headingStack |-> <<>>, chunks |-> <<>>], result |-> <<>>]

ChunkPaths == {<<"vault/", "a", ".md">>, <<"/cwd/", "vault/", "d", "/", "a", ".md">>}

Characters == {Hash, Newline, "x"}

\* the documents of up to MaxDocLen characters
Documents == UNION {[1..k -> Characters] : k \in 0..MaxDocLen}

outsideChunker == <<queueVars, files, storeVars, histVars, lockVars, sweepVars,
                    cacheFileVars, embed, search, backups, texts, limiter,
                     retry, stream>>

\* chunkFile(filePath, fileContent) is called
CallChunkFile(filePath, fileContent) ==
    /\ chunker.pc = "idle"
    /\ chunker' = [IdleChunker EXCEPT !.pc = "reducing", !.filePath = filePath,
                                      !.content = fileContent,
                                      !.lines = Split(fileContent, Newline), !.pos = 1]
    /\ UNCHANGED outsideChunker

\* reduce handles the next line; after the last one chunkFile returns
ReduceStep ==
    /\ chunker.pc = "reducing"
    /\ LET acc == ReduceLine(chunker.acc, chunker.lines[chunker.pos],
                             FileParts(chunker.filePath))
       IN  chunker' = IF chunker.pos < Len(chunker.lines)
                      THEN [chunker EXCEPT !.acc = acc, !.pos = chunker.pos + 1]
                      ELSE [chunker EXCEPT !.acc = acc, !.pc = "returned",
                                           !.result = FilterChunks(acc.chunks)]
    /\ UNCHANGED outsideChunker

----------------------------------------------------------------------------
(* search.ts: searchContent, one await at a time                           *)
(*                                                                         *)
(* Scores are in hundredths. The index answers queryItems with at most     *)
(* topK candidates in an order of its own, or with an error; a candidate   *)
(* is named by its place in that answer. Messages of errors are sequences  *)
(* of tokens, so that String.includes is computed.                         *)

\* SEARCH_CONFIG.limit
Limit == 10

\* SEARCH_CONFIG.minScore, 0.6
MinScore == 60

TooSmallPhrase == <<"document collection is too small">>

\* the error of the keyword index of queryItems on fewer than three documents
TooSmallError ==
    <<"winkBM25S: ", "document collection is too small",
      " for consolidation; add more docs!">>

FileError == <<"ENOENT: no such file or directory">>

BackendError == <<"Operation failed after 3 retries: ", "fetch failed">>

IndexError == <<"Unexpected end of JSON input">>

IncludesNever(message, phrase) == FALSE

\* String.prototype.includes
Includes(message, phrase) ==
    \E i \in 1..(Len(message) - Len(phrase) + 1) :
        SubSeq(message, i, i + Len(phrase) - 1) = phrase

QualifiesAlways(score, minScore) == TRUE

\* the test of the score filter, line 137
Qualifies(score, minScore) == score >= minScore

\* the score of the candidate at place i of a run that passes the floor or
\* does not
ScoreAt(i, passes) ==
    IF ~passes THEN MinScore - 1
    ELSE IF i % 2 = 1 THEN MinScore ELSE MinScore + 30

\* an answer of queryItems: runs of candidates that pass the floor and runs
\* that do not, in turn, the first run passing
RECURSIVE RunScores(_, _, _)
RunScores(runs, passes, from) ==
    IF runs = <<>> THEN <<>>
    ELSE [i \in 1..runs[1] |-> ScoreAt(from + i, passes)]
         \o RunScores(Tail(runs), ~passes, from + runs[1])

CandidatesOf(runs) ==
    LET scores == RunScores(runs, TRUE, 0)
    IN  [i \in 1..Len(scores) |-> [id |-> i, score |-> scores[i]]]

RECURSIVE Sum(_)
Sum(runs) == IF runs = <<>> THEN 0 ELSE runs[1] + Sum(Tail(runs))

RunLengths == {0, 1, Limit - 1, Limit, Limit + 1}

\* the answers of queryItems to a request for topK candidates
Answers(topK) == {runs \in [1..MaxRuns -> RunLengths] : Sum(runs) <= topK}

\* Array.prototype.slice(0, n)
Slice(s, n) == SubSeq(s, 1, IF Len(s) < n THEN Len(s) ELSE n)

PassesFloor(result) == Qualifies(result.score, MinScore)

\* searchContent, lines 119-176: the score filter, the slice and the text
\* of each result
SearchResults(vectorResults, readable) ==
    LET results == Slice(SelectSeq(vectorResults, PassesFloor), Limit)
    IN  [i \in 1..Len(results) |->
            [id |-> results[i].id, score |-> results[i].score,
             text |-> IF readable THEN "text" ELSE "[Text unavailable]"]]

\* searchContent: pc is idle, check, create, embed, query, returned, threw;
\* topK what queryItems was asked for, candidates what it answered
IdleSearch ==
    [pc |-> "idle", topK |-> 0, candidates |-> <<>>, failed |-> "none",
     message |-> <<>>, result |-> <<>>]

\* the catch of searchContent, lines 193-209
SearchCatch(s, step, message) ==
    IF Includes(message, TooSmallPhrase)
    THEN [s EXCEPT !.pc = "returned", !.failed = step, !.message = message, !.result = <<>>]
    ELSE [s EXCEPT !.pc = "threw", !.failed = step, !.message = message]

outsideSearch == <<queueVars, files, storeVars, histVars, lockVars, sweepVars,
                   cacheFileVars, embed, chunker, backups, texts, limiter,
                    retry, stream>>

\* searchContent(query) is called
CallSearch ==
    /\ search.pc \in {"idle", "returned", "threw"}
    /\ search' = [IdleSearch EXCEPT !.pc = "check"]
    /\ UNCHANGED outsideSearch

\* isIndexCreated answers or raises, lines 97-103
CheckIndex(outcome) ==
    /\ search.pc = "check"
    /\ search' = IF outcome = "error" THEN SearchCatch(search, "check", FileError)
                 ELSE [search EXCEPT !.pc = IF outcome = "exists" THEN "embed" ELSE "create"]
    /\ UNCHANGED outsideSearch

\* createIndex returns or raises, line 102
CreateSearchIndex(ok) ==
    /\ search.pc = "create"
    /\ search' = IF ok THEN [search EXCEPT !.pc = "embed"]
                 ELSE SearchCatch(search, "create", FileError)
    /\ UNCHANGED outsideSearch

\* queryOllama returns the embedding of the query or raises, line 106
EmbedQuery(ok) ==
    /\ search.pc = "embed"
    /\ search' = IF ok THEN [search EXCEPT !.pc = "query", !.topK = Limit * 2]
                 ELSE SearchCatch(search, "embed", BackendError)
    /\ UNCHANGED outsideSearch

\* queryItems answers, lines 113-191: the results are filtered, cut and
\* given their text, and searchContent returns
QueryItems(runs, readable) ==
    /\ search.pc = "query"
    /\ runs \in Answers(search.topK)
    /\ search' = [search EXCEPT !.pc = "returned",
                                !.candidates = CandidatesOf(runs),
                                !.result = SearchResults(CandidatesOf(runs), readable)]
    /\ UNCHANGED outsideSearch

\* queryItems raises, line 113
QueryItemsFails(message) ==
    /\ search.pc = "query"
    /\ search' = SearchCatch(search, "query", message)
    /\ UNCHANGED outsideSearch

----------------------------------------------------------------------------
(* vectorStore.ts: cleanupBackups, one await at a time                     *)
(*                                                                         *)
(* An entry of the backup directory has a name, which matches the pattern  *)
(* of a backup or does not, and a modification time. readdir lists the     *)
(* entries by name.                                                        *)

\* VECTOR_STORE_CONFIG.maxBackups
MaxBackups == 7

\* the modification time of the i-th of n entries: growing with the name,
\* falling, all the same, or with the oldest name touched last
TimePatterns == {"rising", "falling", "equal", "touched"}

TimeOf(pattern, i, n) ==
    IF pattern = "rising" THEN i
    ELSE IF pattern = "falling" THEN n + 1 - i
    ELSE IF pattern = "equal" THEN 1
    ELSE IF i = 1 THEN n + 1 ELSE i

\* the backup directory with n backups, and a file of another name in front
\* when stray
EntriesOf(n, pattern, stray) ==
    (IF stray THEN <<[name |-> 0, valid |-> FALSE, time |-> n + 2]>> ELSE <<>>)
    \o [i \in 1..n |-> [name |-> i, valid |-> TRUE, time |-> TimeOf(pattern, i, n)]]

IsValidBackup(entry) == entry.valid

RemoveAt(s, i) == SubSeq(s, 1, i - 1) \o SubSeq(s, i + 1, Len(s))

\* the comparator of the sort, line 272
SortNewestFirst(a, b) == b.time - a.time

\* Array.prototype.sort with that comparator; entries that compare equal
\* keep their order
RECURSIVE SortBackups(_)
SortBackups(s) ==
    IF s = <<>> THEN <<>>
    ELSE LET i == CHOOSE k \in 1..Len(s) :
                      /\ \A j \in 1..Len(s) : SortNewestFirst(s[k], s[j]) <= 0
                      /\ \A j \in 1..(k - 1) : SortNewestFirst(s[j], s[k]) > 0
         IN  <<s[i]>> \o SortBackups(RemoveAt(s, i))

\* cleanupBackups, lines 256-276: the backups to delete
BackupsToDelete(entries) ==
    LET validBackups == SelectSeq(entries, IsValidBackup)
    IN  IF Len(validBackups) > MaxBackups
        THEN LET sortedBackups == SortBackups(validBackups)
             IN  SubSeq(sortedBackups, MaxBackups + 1, Len(sortedBackups))
        ELSE <<>>

\* cleanupBackups: pc is idle, deleting, returned; entries the backup
\* directory, found the directory as readdir listed it, backupsToDelete the
\* backups still to remove
IdleBackups == [pc |-> "idle", entries |-> <<>>, found |-> <<>>, backupsToDelete |-> <<>>]

outsideBackups == <<queueVars, files, storeVars, histVars, lockVars, sweepVars,
                    cacheFileVars, embed, chunker, search, texts, limiter,
                     retry, stream>>

\* cleanupBackups is called on a backup directory; readdir, filter and sort
CallCleanupBackups(n, pattern, stray) ==
    /\ backups.pc = "idle"
    /\ LET entries == EntriesOf(n, pattern, stray)
       IN  backups' = [pc |-> IF BackupsToDelete(entries) = <<>> THEN "returned" ELSE "deleting",
                       entries |-> entries, found |-> entries,
                       backupsToDelete |-> BackupsToDelete(entries)]
    /\ UNCHANGED outsideBackups

WithoutName(name) == LET Other(entry) == entry.name # name IN SelectSeq(backups.entries, Other)

\* the for loop, lines 283-292: rm removes the next backup, or fails, which
\* is logged; after the last one cleanupBackups returns
RemoveBackup(ok) ==
    /\ backups.pc = "deleting"
    /\ backups' = [backups EXCEPT
           !.entries = IF ok THEN WithoutName(backups.backupsToDelete[1].name) ELSE @,
           !.backupsToDelete = Tail(@),
           !.pc = IF Len(backups.backupsToDelete) = 1 THEN "returned" ELSE "deleting"]
    /\ UNCHANGED outsideBackups

----------------------------------------------------------------------------
(* vectorStore.ts and search.ts: the side text files                       *)
(*                                                                         *)
(* normalizePathForStorage works on characters, so the paths of this part  *)
(* are sequences of names and separators: "vault/a/b.md" is                *)
(* <<"vault", "/", "a", "/", "b.md">>. A chunk text is named by the        *)
(* document, the version of its content and the number of the chunk.       *)

VaultAB == <<"vault", "/", "a", "/", "b.md">>

VaultA_B == <<"vault", "/", "a", "_", "b.md">>

VaultC == <<"vault", "/", "c.md">>

TextDocs == {VaultAB, VaultA_B, VaultC}

Versions == {1, 2}

\* `${relativePath}::${index}`
CharChunkId(relativePath, i) == relativePath \o <<":", ":", IndexToken(i)>>

\* chunk.text || ""
ChunkText(filePath, version, i) == <<filePath, version, i>>

\* String.prototype.replace with a string pattern: the first occurrence only
RECURSIVE ReplaceFirst(_, _, _)
ReplaceFirst(s, pattern, by) ==
    IF Len(s) < Len(pattern) THEN s
    ELSE IF SubSeq(s, 1, Len(pattern)) = pattern
    THEN by \o SubSeq(s, Len(pattern) + 1, Len(s))
    ELSE <<Head(s)>> \o ReplaceFirst(Tail(s), pattern, by)

\* replace(/[\\/:]/g, "_")
ReplaceSeparators(s) ==
    [i \in 1..Len(s) |-> IF s[i] \in {"\\", "/", ":"} THEN "_" ELSE s[i]]

\* normalizePathForStorage
NormalizePathForStorage(path) ==
    ReplaceSeparators(ReplaceFirst(path, <<"vault", "/">>, <<>>))

\* join(TEXT_FILES_DIR, `${sanitizedPath}.txt`)
TextFilePath(sanitizedPath) ==
    <<"db", "/", "text_files", "/">> \o sanitizedPath \o <<".txt">>

\* metadata.documentId: `text_files/${sanitizedPath}`
DocumentId(sanitizedPath) == <<"text_files", "/">> \o sanitizedPath

\* search.ts: path.join(VECTOR_STORE_DIR, documentId + ".txt")
HydrationPath(documentId) == <<"db", "/">> \o documentId \o <<".txt">>

Unavailable == <<"[Text unavailable]">>

\* searchContent, lines 155-184: the text given to the result of record id
HydratedText(t, id, readable) ==
    LET path == HydrationPath(t.documentIds[id])
    IN  IF readable /\ path \in DOMAIN t.files THEN t.files[path] ELSE Unavailable

\* files: the directory db/text_files; documentIds: the metadata of the
\* records of the index; wrote: the text storeChunks wrote for each record
\* (history); hydrated: the last result that searchContent filled in
IdleTexts == [files |-> <<>>, documentIds |-> <<>>, wrote |-> <<>>,
              hydrated |-> [id |-> <<>>, readable |-> FALSE, text |-> <<>>]]

\* storeChunks(filePath, embeddedChunks), lines 392-456, for n chunks of the
\* given version of the document
StoreTexts(t, filePath, n, version) ==
    LET kept    == {id \in DOMAIN t.documentIds : ~StartsWith(id, filePath)}
        newIds  == {CharChunkId(filePath, i - 1) : i \in 1..n}
        NumberOf(id) == CHOOSE i \in 1..n : CharChunkId(filePath, i - 1) = id
        PathOf(id)   == TextFilePath(NormalizePathForStorage(id))
        written == {PathOf(id) : id \in newIds}
        Writer(path) == CHOOSE id \in newIds : PathOf(id) = path
    IN  [t EXCEPT
           !.files = [path \in DOMAIN t.files \cup written |->
                         IF path \in written
                         THEN ChunkText(filePath, version, NumberOf(Writer(path)))
                         ELSE t.files[path]],
           !.documentIds = [id \in kept \cup newIds |->
                         IF id \in newIds
                         THEN DocumentId(NormalizePathForStorage(id))
                         ELSE t.documentIds[id]],
           !.wrote = [id \in kept \cup newIds |->
                         IF id \in newIds
                         THEN ChunkText(filePath, version, NumberOf(id))
                         ELSE t.wrote[id]]]

outsideTexts == <<queueVars, files, storeVars, histVars, lockVars, sweepVars,
                  cacheFileVars, embed, chunker, search, backups, limiter,
                   retry, stream>>

\* storeChunks is called for a document
CallStoreTexts(filePath, n, version) ==
    /\ texts' = StoreTexts(texts, filePath, n, version)
    /\ UNCHANGED outsideTexts

\* searchContent loads the text of a result; readFile may fail
Hydrate(id, readable) ==
    /\ id \in DOMAIN texts.documentIds
    /\ texts' = [texts EXCEPT !.hydrated =
                    [id |-> id, readable |-> readable,
                     text |-> HydratedText(texts, id, readable)]]
    /\ UNCHANGED outsideTexts

----------------------------------------------------------------------------
(* rateLimiter.ts: waitForSlot                                             *)
(*                                                                         *)
(* The clock of this part moves in steps of half a time window. A timer    *)
(* never fires early, and time does not pass over a timer that is due.     *)

\* rateLimiter = createRateLimiter({ maxRequests: 10, timeWindow: 1000 })
MaxRequests == 10

TimeWindow == 1000

SlotTick == TimeWindow \div 2

\* cleanup(): the timestamps younger than the time window
CleanupTimestamps(timestamps, t) ==
    LET Young(time) == t - time < TimeWindow IN SelectSeq(timestamps, Young)

\* timestamps: state.timestamps; waiting: the callers in the await of line
\* 46, each with the now it read and the time its timer is due; clock:
\* Date.now(); admitted: the times at which waitForSlot returned (history)
IdleLimiter == [timestamps |-> <<>>, waiting |-> <<>>, clock |-> 0,
                admitted |-> <<>>]

outsideLimiter == <<queueVars, files, storeVars, histVars, lockVars, sweepVars,
                    cacheFileVars, embed, chunker, search, backups, texts,
                     retry, stream>>

Due(w) == w.due <= limiter.clock

\* waitForSlot() is called: lines 40-47, and line 49 when no slot is missing
CallWaitForSlot ==
    /\ Len(limiter.admitted) + Len(limiter.waiting) < MaxSlotCalls
    /\ LET t        == limiter.clock
           cleaned  == CleanupTimestamps(limiter.timestamps, t)
           waitTime == TimeWindow - (t - cleaned[1])
       IN  IF Len(cleaned) >= MaxRequests
           THEN limiter' = [limiter EXCEPT
                    !.timestamps = cleaned,
                    !.waiting = Append(@, [now |-> t, due |-> t + waitTime])]
           ELSE limiter' = [limiter EXCEPT
                    !.timestamps = Append(cleaned, t),
                    !.admitted = Append(@, t)]
    /\ UNCHANGED outsideLimiter

\* the timer of line 46 fires: line 49 pushes the now of line 41
Resume(i) ==
    /\ i \in 1..Len(limiter.waiting)
    /\ Due(limiter.waiting[i])
    /\ limiter' = [limiter EXCEPT
           !.timestamps = Append(@, limiter.waiting[i].now),
           !.waiting = SubSeq(@, 1, i - 1) \o SubSeq(@, i + 1, Len(@)),
           !.admitted = Append(@, limiter.clock)]
    /\ UNCHANGED outsideLimiter

\* half a time window passes
SlotTime ==
    /\ limiter.clock < MaxSlotTicks * SlotTick
    /\ \A i \in 1..Len(limiter.waiting) : ~Due(limiter.waiting[i])
    /\ limiter' = [limiter EXCEPT !.clock = @ + SlotTick]
    /\ UNCHANGED outsideLimiter

----------------------------------------------------------------------------
(* util.ts: retryWithBackoff, one await at a time *)

\* the default config, lines 184-189 (maxRetries is MaxRetries)
InitialDelay == 1000

MaxDelay == 10000

Factor == 2

\* the configs retryWithBackoff is called with: the default, which every
\* caller of the repository uses, fewer and more retries, other factors, and
\* an initial delay above the largest delay
RetryConfigs ==
    [maxRetries : 0..MaxConfigRetries,
     initialDelay : {InitialDelay, MaxDelay + InitialDelay},
     maxDelay : {MaxDelay},
     factor : {1, Factor, Factor + 1}]

DefaultConfig == [maxRetries |-> MaxRetries, initialDelay |-> InitialDelay,
                  maxDelay |-> MaxDelay, factor |-> Factor]

SmallerOfTwo(a, b) == IF a < b THEN a ELSE b

NextDelayUncapped(delay, config) == delay * config.factor

\* delay = Math.min(delay * config.factor, config.maxDelay)
NextDelay(delay, config) == SmallerOfTwo(delay * config.factor, config.maxDelay)

\* pc: idle, operation (the await of line 197), waiting (the await of line
\* 211), returned, threw; invocations counts the calls of operation and
\* waited lists the delays of the timers that ran (both history)
IdleRetry == [pc |-> "idle", config |-> DefaultConfig, attempt |-> 0,
              delay |-> 0, invocations |-> 0, waited |-> <<>>]

outsideRetry == <<queueVars, files, storeVars, histVars, lockVars, sweepVars,
                  cacheFileVars, embed, chunker, search, backups, texts,
                  limiter, stream>>

\* retryWithBackoff(operation, config) up to the first call of operation
CallRetryWithBackoff(config) ==
    /\ retry.pc = "idle"
    /\ retry' = IF 0 <= config.maxRetries
                THEN [IdleRetry EXCEPT !.pc = "operation", !.config = config,
                                       !.delay = config.initialDelay,
                                       !.invocations = 1]
                ELSE [IdleRetry EXCEPT !.pc = "threw", !.config = config]
    /\ UNCHANGED outsideRetry

\* operation() returns or raises: lines 196-209
Operation(ok) ==
    /\ retry.pc = "operation"
    /\ retry' = [retry EXCEPT
           !.pc = IF ok THEN "returned"
                  ELSE IF retry.attempt = retry.config.maxRetries THEN "threw"
                  ELSE "waiting"]
    /\ UNCHANGED outsideRetry

\* the timer of line 211 has run: line 212, attempt++ and the next call of
\* operation
Backoff ==
    /\ retry.pc = "waiting"
    /\ retry' = [retry EXCEPT
           !.pc = "operation",
           !.waited = Append(@, retry.delay),
           !.delay = NextDelay(retry.delay, retry.config),
           !.attempt = @ + 1,
           !.invocations = @ + 1]
    /\ UNCHANGED outsideRetry

----------------------------------------------------------------------------
(* ollama.ts: streamFromOllama, one read at a time                         *)
(*                                                                         *)
(* The body of the response is a sequence of characters: the fragment that *)
(* carries the token a is <<"{", "a", "}">>, the fragment without a        *)
(* message.content is <<"{", "}">>, and each fragment ends with a newline. *)
(* A read delivers any number of the characters that are left.             *)

StreamTokens == {"a", "b"}

Fragment(token) == <<"{", token, "}">>

DoneFragment == <<"{", "}">>

\* the body that carries the tokens, with or without a last fragment that
\* carries none
RECURSIVE Body(_, _)
Body(tokens, withDone) ==
    IF tokens = <<>>
    THEN IF withDone THEN DoneFragment \o <<Newline>> ELSE <<>>
    ELSE Fragment(Head(tokens)) \o <<Newline>> \o Body(Tail(tokens), withDone)

\* JSON.parse of a line, and the test of lines 313-317 on what it returns
JsonParse(line) ==
    IF Len(line) = 3 /\ line[1] = "{" /\ line[2] \in StreamTokens /\ line[3] = "}"
    THEN [kind |-> "token", token |-> line[2]]
    ELSE IF line = DoneFragment THEN [kind |-> "other", token |-> ""]
    ELSE [kind |-> "SyntaxError", token |-> ""]

\* .pop() ?? ""
Pop(lines) == IF lines = <<>> THEN <<>> ELSE lines[Len(lines)]

\* lines 306-312: what JSON.parse is given for the value of a read
LastLine(value) == Pop(FilterChunks(Split(value, Newline)))

\* pc: idle, reading, returned, threw; body is the response (history),
\* unread what the reader has not delivered, forwarded the tokens handed to
\* onToken
IdleStream == [pc |-> "idle", body |-> <<>>, unread |-> <<>>, forwarded |-> <<>>]

outsideStream == <<queueVars, files, storeVars, histVars, lockVars, sweepVars,
                   cacheFileVars, embed, chunker, search, backups, texts,
                   limiter, retry>>

\* streamFromOllama(prompt, onToken) up to its first read
CallStreamFromOllama(body) ==
    /\ stream.pc = "idle"
    /\ stream' = [IdleStream EXCEPT !.pc = "reading", !.body = body, !.unread = body]
    /\ UNCHANGED outsideStream

\* reader.read() delivers the next n characters: lines 303-318
ReadValue(n) ==
    /\ stream.pc = "reading"
    /\ n \in 1..Len(stream.unread)
    /\ LET content == JsonParse(LastLine(SubSeq(stream.unread, 1, n)))
       IN  stream' = [stream EXCEPT
               !.pc = IF content.kind = "SyntaxError" THEN "threw" ELSE "reading",
               !.unread = SubSeq(@, n + 1, Len(@)),
               !.forwarded = IF content.kind = "token"
                             THEN Append(@, content.token) ELSE @]
    /\ UNCHANGED outsideStream

\* reader.read() reports done: line 304
ReadDone ==
    /\ stream.pc = "reading"
    /\ stream.unread = <<>>
    /\ stream' = [stream EXCEPT !.pc = "returned"]
    /\ UNCHANGED outsideStream

\* the parts beside the pipeline, before their first call
SideStart ==
    /\ embed = IdleEmbed
    /\ chunker = IdleChunker
    /\ search = IdleSearch
    /\ backups = IdleBackups
    /\ texts = IdleTexts
    /\ limiter = IdleLimiter
    /\ retry = IdleRetry
    /\ stream = IdleStream

----------------------------------------------------------------------------
(* Specifications *)

\* the vector index starts or stops raising on deleteItem
IndexFault ==
    /\ pcMain = "watching"
    /\ deleteFails' = ~deleteFails
    /\ UNCHANGED <<queueVars, files, cache, index, histVars>>
    /\ UNCHANGED <<lockVars, sweepVars, cacheFileVars, sideVars>>

RECURSIVE SeqsUpTo(_, _)
SeqsUpTo(S, n) ==
    IF n = 0 THEN {<<>>}
    ELSE LET shorter == SeqsUpTo(S, n - 1)
         IN  shorter \cup {Append(q, x) : q \in shorter, x \in S}

NoLast == [event |-> "none", filePath |-> <<>>, ok |-> TRUE, branch |-> "none",
           embedded |-> 0, mutations |-> 0, stored |-> FALSE, ids |-> <<>>]

FileA == [exists |-> TRUE, content |-> 1, mtime |-> 1]

\* the state after the module initialisers, before main() calls recoverQueue
VaultStart(savedQueues, stamped) ==
    /\ isProcessingFile = FALSE
    /\ fileQueue = <<>>
    /\ queueFile \in savedQueues
    /\ writes = <<>>
    /\ immediates = <<>>
    /\ inFlight = <<>>
    /\ pcMain = "recover"
    /\ files = [d \in Docs |-> IF d = RelA THEN FileA ELSE NoFile]
    /\ cache = <<>>
    /\ index = DOMAIN stamped
    /\ deleteFails = FALSE
    /\ order = <<>>
    /\ arrived = FALSE
    /\ recovered = <<>>
    /\ startedLog = <<>>
    /\ last = NoLast
    /\ modifiedTimes = stamped
    /\ now = 0
    /\ storedAt = <<>>
    /\ swept = {}

\* vectorStore.ts, lines 36-64; count is operationCount
LockStart(count) ==
    /\ vectorStoreLock = FALSE
    /\ vectorStoreLockTimeout = NoTimer
    /\ update = 0
    /\ operationCount = count
    /\ storeCalls = [p \in Procs |-> IdleCall]
    /\ lockOwner = NoOwner

InitWith(savedQueues) ==
    /\ VaultStart(savedQueues, <<>>)
    /\ LockStart(0)
    /\ CacheFileStart
    /\ SideStart

\* the stream of events is held back while MaxOutstanding entries wait or
\* MaxWrites writes of the queue file are in flight
Room == Len(order) < MaxOutstanding /\ Len(writes) < MaxWrites

\* events arrive one at a time: none waits and no write is in flight
Calm == order = <<>> /\ writes = <<>>


(* The ingestion of two documents, one of them reported under its relative *)
(* path (startup scan) and its absolute path (watcher), while the user     *)
(* edits the vault. Events arrive one at a time here; the queue under a    *)
(* stream of events is QueueSpec.                                          *)

Events == {Entry(ev, p) : ev \in {"add", "change", "unlink"}, p \in {RelA, AbsA}}

Edits(d) == IF d = RelA THEN FileStates ELSE {}

Init == InitWith({MissingFile})

Next ==
    \/ RecoverVaultWatchQueue
    \/ \E i \in 1..Len(writes) : WriteDone(i)
    \/ \E e \in Events : Watch(e, Calm)
    \/ RunImmediate
    \/ \E i \in 1..Len(inFlight) : Complete(i, writes = <<>>)
    \/ \E d \in Docs : \E f \in Edits(d) : EditFile(d, f)
    \/ IndexFault

Spec == Init /\ [][Next]_vars

(* The queue under a stream of events for a vault that does not change:    *)
(* vault/a.md exists, vault/b.md does not, so its add event fails.         *)

QueueEvents == {Entry("add", RelA), Entry("add", RelB)}

SavedEvents == {Entry("add", RelA), Entry("add", RelB)}

SavedQueues == {MissingFile, CorruptFile} \cup {Stringify(q) : q \in SeqsUpTo(SavedEvents, MaxSaved)}

QueueInit == InitWith(SavedQueues)

QueueNext ==
    \/ RecoverVaultWatchQueue
    \/ \E i \in 1..Len(writes) : WriteDone(i)
    \/ \E e \in QueueEvents : Watch(e, Room)
    \/ RunImmediate
    \/ \E i \in 1..Len(inFlight) : Complete(i, Len(writes) < MaxWrites)

QueueSpec == QueueInit /\ [][QueueNext]_vars

\* the scheduling of Node: every write of the queue file completes, every
\* setImmediate callback runs, every handler that entered the try body
\* reaches its finally phase; the arrival of events is not forced
FairQueueSpec ==
    /\ QueueSpec
    /\ WF_vars(RecoverVaultWatchQueue)
    /\ WF_vars(WriteDone(1))
    /\ WF_vars(RunImmediate)
    /\ SF_vars(\E i \in 1..Len(inFlight) : Complete(i, Len(writes) < MaxWrites))

(* Two overlapping callers of storeChunks on the two paths of vault/a.md,  *)
(* with the counter of mutations far from and next to the threshold.       *)

StorePaths == {RelA, AbsA}

LockInit ==
    /\ VaultStart({MissingFile}, <<>>)
    /\ \E count \in {0, OptimizationThreshold - 2} : LockStart(count)
    /\ CacheFileStart
    /\ SideStart

LockNext ==
    \/ \E p \in Procs : \E filePath \in StorePaths : CallStore(p, filePath)
    \/ \E p \in Procs : StoreAcquire(p)
    \/ \E p \in Procs : StoreAcquireTimeout(p)
    \/ \E p \in Procs : BeginUpdate(p)
    \/ \E p \in Procs : DeleteExisting(p)
    \/ \E p \in Procs : InsertChunks(p)
    \/ \E p \in Procs : EndUpdate(p)
    \/ \E p \in Procs : OptAcquire(p)
    \/ \E p \in Procs : OptAcquireTimeout(p)
    \/ \E p \in Procs : OptimizeDrop(p)
    \/ \E p \in Procs : OptimizeReinsert(p)
    \/ \E p \in Procs : CleanAcquire(p)
    \/ \E p \in Procs : CleanAcquireTimeout(p)
    \/ \E p \in Procs : \E loaded \in BOOLEAN : Cleanup(p, loaded)
    \/ TimerFires
    \/ Tick
    \/ ResetOperationCount
    \/ \E filePath \in StorePaths : DeleteFileCall(filePath)

LockSpec == LockInit /\ [][LockNext]_vars

(* The same callers with the counter next to the threshold and an index    *)
(* that may raise while optimizeVectorStore rebuilds it.                   *)

OptimizeInit ==
    /\ VaultStart({MissingFile}, <<>>)
    /\ LockStart(OptimizationThreshold - 2)
    /\ CacheFileStart
    /\ SideStart

OptimizeNext ==
    \/ \E p \in Procs : \E filePath \in StorePaths : CallStore(p, filePath)
    \/ \E p \in Procs : StoreAcquire(p)
    \/ \E p \in Procs : StoreAcquireTimeout(p)
    \/ \E p \in Procs : BeginUpdate(p)
    \/ \E p \in Procs : DeleteExisting(p)
    \/ \E p \in Procs : InsertChunks(p)
    \/ \E p \in Procs : EndUpdate(p)
    \/ \E p \in Procs : OptAcquire(p)
    \/ \E p \in Procs : OptAcquireTimeout(p)
    \/ \E p \in Procs : OptimizeDrop(p)
    \/ \E p \in Procs : OptimizeReinsert(p)
    \/ \E p \in Procs : \E kept \in SUBSET storeCalls[p].all :
           OptimizeFails(p, kept)
    \/ \E p \in Procs : CleanAcquire(p)
    \/ \E p \in Procs : CleanAcquireTimeout(p)
    \/ \E p \in Procs : \E loaded \in BOOLEAN : Cleanup(p, loaded)
    \/ TimerFires
    \/ Tick
    \/ ResetOperationCount

OptimizeSpec == OptimizeInit /\ [][OptimizeNext]_vars

(* The ingestion over days: vault/a.md and vault/b.md come and go, and the *)
(* index found at startup may hold a record of an earlier three-chunk      *)
(* version of vault/a.md whose metadata has a modifiedTime (VectorMetadata *)
(* allows one; storeChunks writes none).                                   *)

HalfDay == MaxOrphanedAge \div 2

StampedA2 == [id \in {ChunkId(RelA, 2)} |-> 0]

SweepEvents == {Entry("add", RelA), Entry("unlink", RelA), Entry("add", RelB)}

SweepEdits == {NoFile, FileA}

\* Date.now() moves on by half a day, between two events
Advance ==
    /\ pcMain = "watching" /\ inFlight = <<>>
    /\ now < MaxHalfDays * HalfDay
    /\ now' = now + HalfDay
    /\ UNCHANGED <<queueVars, files, storeVars, histVars, lockVars,
                   modifiedTimes, storedAt, swept, cacheFileVars, sideVars>>

SweepInit ==
    /\ \E stamped \in {<<>>, StampedA2} : VaultStart({MissingFile}, stamped)
    /\ LockStart(0)
    /\ CacheFileStart
    /\ SideStart

SweepNext ==
    \/ RecoverVaultWatchQueue
    \/ \E i \in 1..Len(writes) : WriteDone(i)
    \/ \E e \in SweepEvents : Watch(e, Calm)
    \/ RunImmediate
    \/ \E i \in 1..Len(inFlight) : Complete(i, writes = <<>>)
    \/ \E d \in Docs : \E f \in SweepEdits : EditFile(d, f)
    \/ Advance

SweepSpec == SweepInit /\ [][SweepNext]_vars

(* Two overlapping callers of saveCache and loadCache.                     *)

CacheNext ==
    \/ \E p \in Procs : \E c \in CacheValues : CallSave(p, c)
    \/ \E p \in Procs : CallLoad(p)
    \/ \E p \in Procs : Enter(p)
    \/ \E p \in Procs : \E outcome \in {"ok", "error", "garbled"} : WriteTemp(p, outcome)
    \/ \E p \in Procs : Verify(p)
    \/ \E p \in Procs : \E ok \in BOOLEAN : Backup(p, ok)
    \/ \E p \in Procs : \E ok \in BOOLEAN : Commit(p, ok)
    \/ \E p \in Procs : \E ok \in BOOLEAN : Unlink(p, ok)
    \/ \E p \in Procs : Restore(p)
    \/ \E p \in Procs : Read(p)

CacheSpec == InitWith({MissingFile}) /\ [][CacheNext]_vars

\* the scheduling of Node: every file operation completes; a caller in the
\* poll loop looks at the lock again and again, and the lock being free
\* again and again, it finds it free
FairCacheSpec ==
    /\ CacheSpec
    /\ \A p \in Procs :
          /\ SF_vars(Enter(p))
          /\ WF_vars(\E outcome \in {"ok", "error", "garbled"} : WriteTemp(p, outcome))
          /\ WF_vars(Verify(p))
          /\ WF_vars(\E ok \in BOOLEAN : Backup(p, ok))
          /\ WF_vars(\E ok \in BOOLEAN : Commit(p, ok))
          /\ WF_vars(\E ok \in BOOLEAN : Unlink(p, ok))
          /\ WF_vars(Restore(p))
          /\ WF_vars(Read(p))

(* The same with a process that can stop at any await and start again.     *)

CrashNext ==
    \/ CacheNext
    \/ Crash

CrashSpec == InitWith({MissingFile}) /\ [][CrashNext]_vars

(* The same with a cache file that can be damaged or unreadable.           *)

LoadNext ==
    \/ CacheNext
    \/ \E p \in Procs : ReadFails(p)
    \/ Damage

LoadSpec == InitWith({MissingFile}) /\ [][LoadNext]_vars

(* embedChunks on up to MaxChunks chunks against a backend that answers    *)
(* each fetch as it likes.                                                 *)

EmbedNext ==
    \/ \E n \in 0..MaxChunks : CallEmbed(n)
    \/ \E resp \in Responses : Fetch(resp)

EmbedSpec == InitWith({MissingFile}) /\ [][EmbedNext]_vars

(* chunkFile on every document of up to MaxDocLen characters.              *)

ChunkNext ==
    \/ \E filePath \in ChunkPaths : \E fileContent \in Documents :
          CallChunkFile(filePath, fileContent)
    \/ ReduceStep

ChunkSpec == InitWith({MissingFile}) /\ [][ChunkNext]_vars

(* searchContent against an index and a backend that answer or fail.       *)

SearchNext ==
    \/ CallSearch
    \/ \E outcome \in {"exists", "absent", "error"} : CheckIndex(outcome)
    \/ \E ok \in BOOLEAN : CreateSearchIndex(ok)
    \/ \E ok \in BOOLEAN : EmbedQuery(ok)
    \/ \E runs \in [1..MaxRuns -> RunLengths] : \E readable \in BOOLEAN :
          QueryItems(runs, readable)
    \/ \E message \in {TooSmallError, IndexError} : QueryItemsFails(message)

SearchSpec == InitWith({MissingFile}) /\ [][SearchNext]_vars

(* cleanupBackups on backup directories of up to MaxBackupDirs backups.    *)

BackupNext ==
    \/ \E n \in 0..MaxBackupDirs : \E pattern \in TimePatterns : \E stray \in BOOLEAN :
          CallCleanupBackups(n, pattern, stray)
    \/ \E ok \in BOOLEAN : RemoveBackup(ok)

BackupSpec == InitWith({MissingFile}) /\ [][BackupNext]_vars

(* Two documents of which one has the path of the other as a prefix of its *)
(* own, vault/a.md and vault/a.md.bak.md, both present; events arrive one  *)
(* at a time and the cache file may fail to load at the start of an add.   *)

RelABak == RelA \o <<".bak.md">>

FrameDocs == {RelA, RelABak}

FrameEvents == {Entry(ev, p) : ev \in {"add", "change", "unlink"}, p \in FrameDocs}

FrameInit ==
    /\ isProcessingFile = FALSE
    /\ fileQueue = <<>>
    /\ queueFile = MissingFile
    /\ writes = <<>>
    /\ immediates = <<>>
    /\ inFlight = <<>>
    /\ pcMain = "recover"
    /\ files = [d \in FrameDocs |-> FileA]
    /\ cache = <<>>
    /\ index = {}
    /\ deleteFails = FALSE
    /\ order = <<>>
    /\ arrived = FALSE
    /\ recovered = <<>>
    /\ startedLog = <<>>
    /\ last = NoLast
    /\ modifiedTimes = <<>>
    /\ now = 0
    /\ storedAt = <<>>
    /\ swept = {}
    /\ LockStart(0)
    /\ CacheFileStart
    /\ SideStart

FrameNext ==
    \/ RecoverVaultWatchQueue
    \/ \E i \in 1..Len(writes) : WriteDone(i)
    \/ \E e \in FrameEvents : Watch(e, Calm)
    \/ RunImmediate
    \/ \E i \in 1..Len(inFlight) : Complete(i, writes = <<>>)
    \/ \E i \in 1..Len(inFlight) : CompleteLoadFailed(i, writes = <<>>)
    \/ \E d \in FrameDocs : \E f \in {NoFile, FileA} : EditFile(d, f)

FrameSpec == FrameInit /\ [][FrameNext]_vars

(* storeChunks and the hydration of searchContent on three documents, two  *)
(* of which differ in one separator only.                                  *)

TextsNext ==
    \/ \E filePath \in TextDocs : \E n \in 1..MaxChunks : \E version \in Versions :
           CallStoreTexts(filePath, n, version)
    \/ \E id \in DOMAIN texts.documentIds : \E readable \in BOOLEAN :
           Hydrate(id, readable)

TextsSpec == InitWith({MissingFile}) /\ [][TextsNext]_vars

(* Callers of waitForSlot that do or do not wait for one another. *)

LimiterNext ==
    \/ CallWaitForSlot
    \/ \E i \in 1..Len(limiter.waiting) : Resume(i)
    \/ SlotTime

LimiterSpec == InitWith({MissingFile}) /\ [][LimiterNext]_vars

(* One call of retryWithBackoff for each config, with an operation that    *)
(* fails any number of times.                                              *)

RetryNext ==
    \/ \E config \in RetryConfigs : CallRetryWithBackoff(config)
    \/ \E ok \in BOOLEAN : Operation(ok)
    \/ Backoff

RetrySpec == InitWith({MissingFile}) /\ [][RetryNext]_vars

(* One call of streamFromOllama for each body of up to MaxTokens tokens,   *)
(* delivered in reads of any length.                                       *)

StreamNext ==
    \/ \E tokens \in SeqsUpTo(StreamTokens, MaxTokens) : \E withDone \in BOOLEAN :
           CallStreamFromOllama(Body(tokens, withDone))
    \/ \E n \in 1..Len(stream.unread) : ReadValue(n)
    \/ ReadDone

StreamSpec == InitWith({MissingFile}) /\ [][StreamNext]_vars

----------------------------------------------------------------------------
(* Properties of the queue (QueueSpec, FairQueueSpec) *)

\* a handler enters the try body in this step
StartStep == Len(inFlight') > Len(inFlight)

\* the entry it was called with
Started == inFlight'[Len(inFlight')]

\* a handler leaves the try body in this step; last' tells what it did
CompleteStep == Len(inFlight') < Len(inFlight)

\* the entries taken off the queue whose dispatch is still to come
RECURSIVE Dequeued(_)
Dequeued(ws) ==
    IF ws = <<>> THEN <<>>
    ELSE (IF Head(ws).cont = "none" THEN <<>> ELSE <<Head(ws).entry>>) \o Dequeued(Tail(ws))

\* C1 (single-flight): in every reachable state at most one call of handle
\* is inside the processing section (the try body) of handleFileEvent.
C1_SingleFlight == Len(inFlight) <= 1

\* one event is being processed while another waits in the queue and a
\* dequeued one waits for its dispatch
C1_Witness == Len(inFlight) = 1 /\ fileQueue # <<>> /\ immediates # <<>>

\* C2 (queue FIFO): an event starts processing only when no event handed to
\* handle before it is still waiting, so events start in submission order.
C2_QueueFIFO == [][StartStep => Head(order \o <<Started>>) = Started]_vars

\* when the processing of an event throws, the error stays in the handler,
\* the busy flag is cleared and the head of the queue is dequeued for dispatch
C3_FailureIsContained ==
    (CompleteStep /\ ~last'.ok) =>
        /\ ~isProcessingFile'
        /\ fileQueue # <<>> =>
              /\ fileQueue' = Tail(fileQueue)
              /\ Dequeued(writes') = Dequeued(writes) \o <<Head(fileQueue)>>

\* C3 (a failing event never stops the queue): a failure is contained as
\* above, and every event handed to handle is eventually processed.
C3_EventuallyProcessed ==
    /\ [][C3_FailureIsContained]_vars
    /\ \A e \in QueueEvents : (e \in Range(order)) ~> (e \in Range(inFlight))

\* C4 (persist-on-enqueue): whenever no write of the queue file is in
\* progress, the file holds the in-memory queue.
C4_PersistOnEnqueue ==
    (pcMain = "watching" /\ writes = <<>>) => LoadQueue(queueFile) = fileQueue

\* as long as no new event arrives, the entries of the recovered queue are
\* started in its order, each once; each entry not yet started waits exactly
\* once (dequeued or queued), and while one waits the drain has a next step
C5_Drain ==
    ~arrived => /\ startedLog \o order = recovered
                /\ Dequeued(writes) \o immediates \o fileQueue = order
                /\ fileQueue # <<>> =>
                      inFlight # <<>> \/ Dequeued(writes) \o immediates # <<>>

\* e1 enters the try body in the step that completes the rewrite of the
\* file to [e2, ..., en]
C5_RewriteFirst ==
    (pcMain = "recovering" /\ pcMain' = "watching")
        => /\ queueFile' = Stringify(Tail(recovered))
           /\ inFlight' = <<Head(recovered)>>
           /\ fileQueue' = Tail(recovered)

\* a missing or unparseable queue file dispatches nothing
C5_NoFile ==
    (pcMain = "recover" /\ queueFile.kind # "json" /\ pcMain' # "recover")
        => /\ pcMain' = "watching"
           /\ inFlight' = <<>> /\ fileQueue' = <<>>
           /\ writes' = <<>> /\ immediates' = <<>>
           /\ queueFile' = queueFile

\* the recovered queue has been processed to its end
C5_Drained ==
    pcMain = "watching" /\ startedLog = recovered /\ inFlight = <<>>

----------------------------------------------------------------------------
(* Properties of the ingestion (Spec) *)

\* the records of the index that belong to the document of path p
RecordsOf(p, idx) == {id \in idx : BelongsTo(id, Relative(p))}

\* C6 (CacheRecord consistency): whenever no event is in flight, the
\* recordIds of every cache record are exactly the ids of the index records
\* that belong to its document.
C6_CacheRecordConsistency ==
    inFlight = <<>> =>
        \A k \in DOMAIN cache : Range(cache[k].vectorIds) = RecordsOf(k, index)

\* C7 (no shared records): no record id is listed by two cache records.
C7_NoSharedRecords ==
    \A k1, k2 \in DOMAIN cache :
        k1 # k2 => Range(cache[k1].vectorIds) \cap Range(cache[k2].vectorIds) = {}

\* C8 (unlink removes everything): when an unlink event for p completes
\* without error, the cache has no record for p and the index has no record
\* of p, in particular none of those p's cache record listed.
C8_UnlinkRemovesEverything ==
    [][(CompleteStep /\ last'.event = "unlink" /\ last'.ok) =>
          LET p == last'.filePath
          IN  /\ p \notin DOMAIN cache'
              /\ RecordsOf(p, index') = {}
              /\ p \in DOMAIN cache => Range(cache[p].vectorIds) \cap index' = {}]_vars

C10_StorePostcondition ==
    [][(CompleteStep /\ last'.stored) =>
          LET p == last'.filePath
              n == Len(last'.ids)
          IN  /\ last'.ids = [i \in 1..n |-> Relative(p) \o <<"::", IndexToken(i - 1)>>]
              /\ RecordsOf(p, index') = Range(last'.ids)]_vars

----------------------------------------------------------------------------
(* Properties of the store lock (LockSpec) *)

\* the call has called beginUpdate (line 390) and its endUpdate (line 460)
\* has not returned
InWindow(c) == c.pc \in {"list", "insert", "end"}

\* C11 (lock serialization): the windows between the opening and the closing
\* of the update transactions of two concurrent store calls never overlap,
\* however long the first call takes, so the second lists the records of the
\* index only when the first has closed its transaction.
C11_LockSerialization ==
    \A p, q \in Procs :
        p # q => ~(InWindow(storeCalls[p]) /\ InWindow(storeCalls[q]))

\* the operation of storeChunks that the call stands in
OpOf(c) == IF c.pc \in {"list", "insert"} THEN "store"
           ELSE IF c.pc \in {"optimize", "reinsert"} THEN "optimize"
           ELSE "cleanup"

\* the call p deletes or inserts records, drops the index or writes a side
\* text file in this step
MutatingStep(p) ==
    /\ storeCalls'[p] # storeCalls[p]
    /\ storeCalls[p].pc \in {"list", "insert", "optimize", "reinsert", "cleanup"}
    /\ index' # index \/ storeCalls[p].pc = "insert"

\* C12 (mutation only under lock): every step that mutates the index or
\* writes a side text file is taken by the operation that holds the store
\* lock, also after the timer of the lock has fired.
C12_MutationOnlyUnderLock ==
    [][/\ \A p \in Procs :
              MutatingStep(p) =>
                  vectorStoreLock /\ lockOwner = Owner(p, OpOf(storeCalls[p]))
       /\ index' # index => \E p \in Procs : MutatingStep(p)]_vars

\* the acquireLock of call p returns false in this step
TimeoutStep(p) ==
    /\ Waiting(storeCalls[p])
    /\ vectorStoreLock /\ lockOwner.proc # p
    /\ storeCalls[p].waited > LockTimeout
    /\ storeCalls'[p] # storeCalls[p]

\* C13 (lock-acquisition timeout is a hard error): when the lock is still
\* held as the timeout of store, cleanupOrphans or optimize elapses, the
\* operation throws, is not retried, mutates nothing and leaves the lock and
\* the timer of the operation that holds it as they are.
C13_TimeoutIsHardError ==
    [][\A p \in Procs :
          TimeoutStep(p) =>
              /\ storeCalls'[p].pc = "idle" /\ storeCalls'[p].result = "threw"
              /\ index' = index /\ update' = update
              /\ vectorStoreLock' = vectorStoreLock
              /\ vectorStoreLockTimeout' = vectorStoreLockTimeout
              /\ lockOwner' = lockOwner]_vars

\* C14 (maintenance is asynchronous to store): a store whose update
\* transaction was closed never ends as a failed one, whatever happens in
\* backup, orphan cleanup and optimize, so the add handler writes the cache
\* record of the stored records.
C14_CommittedStoreReturns ==
    \A p \in Procs : storeCalls[p].committed => storeCalls[p].result # "threw"


----------------------------------------------------------------------------
(* Properties of the orphan cleanup (SweepSpec) *)

\* a handler that ran storeChunks, and with it cleanupOrphanedVectors,
\* completes in this step
CleanupStep == CompleteStep /\ last'.stored

\* the ids that the cache listed when that cleanup ran
CachedAtCleanup ==
    GetAllVectorIds(IF last'.event = "change"
                    THEN DeleteFile(last'.filePath, cache, index, modifiedTimes).cache
                    ELSE cache)

\* C15 (orphan retention): cleanupOrphans deletes no record that a cache
\* record lists, no uncached record whose file exists, and no uncached record
\* of a missing file whose recorded age is below one day.
C15_OrphanRetention ==
    [][CleanupStep =>
          \A id \in swept' :
              /\ id \notin CachedAtCleanup
              /\ ~(Relative(IdPath(id)) \in DOMAIN files /\ files[Relative(IdPath(id))].exists)
              /\ id \in DOMAIN modifiedTimes
              /\ now - modifiedTimes[id] >= MaxOrphanedAge]_vars

\* a cleanup has deleted the old record of a missing file and kept the
\* records of the document that was stored
C15_Witness ==
    /\ swept = {ChunkId(RelA, 2)} /\ last.stored /\ last.filePath = RelB
    /\ index = Range(last.ids) /\ ~files[RelA].exists

\* C16 (orphan deletion): a record written by store that has no cache entry
\* and whose file no longer exists is deleted by every cleanupOrphans run
\* that executes more than one day after the record was stored.
C16_OrphanDeletion ==
    [][CleanupStep =>
          \A id \in index' \cap DOMAIN storedAt :
              ~(/\ id \notin CachedAtCleanup
                /\ ~files[Relative(IdPath(id))].exists
                /\ now - storedAt[id] > MaxOrphanedAge)]_vars

----------------------------------------------------------------------------
(* Properties of the cache files (CacheSpec, FairCacheSpec, CrashSpec) *)

\* saveCache of caller p throws in this step
SaveFails(p) == cacheCalls[p].pc = "restore" /\ cacheCalls'[p].pc = "idle"

\* saveCache of caller p returns in this step
SaveReturns(p) == cacheCalls[p].pc = "unlink" /\ cacheCalls'[p].pc = "idle"

\* loadCache of caller p returns or throws in this step
LoadEnds(p) == cacheCalls[p].pc = "read" /\ cacheCalls'[p].pc = "idle"

\* the call of p is inside its locked section
Inside(c) == c.pc \notin {"idle", "wait"}

\* C17: when saveCache fails at the write of the temporary file, at the
\* verification or at the rename that commits, the cache file afterwards
\* holds what it held when that save began, whatever .tmp and .bak files
\* were on disk, and the caller gets the error.
C17_FailedSaveRestores ==
    [][\A p \in Procs :
          SaveFails(p) =>
              /\ cacheCalls'[p].result = "failed"
              /\ cacheFile' = cacheCalls[p].prior]_vars

\* C18: when the process stops between two file operations of a save, a
\* load after the restart returns what a load before the save returned or
\* the cache that was being saved.
C18_CrashAtomicity ==
    [][\A p \in Procs :
          (/\ cacheCalls'[p].result = "crashed"
           /\ cacheCalls[p].op = "save"
           /\ Inside(cacheCalls[p])) =>
              LoadCache(cacheFile') \in
                  {LoadCache(cacheCalls[p].prior),
                   [ok |-> TRUE, value |-> cacheCalls[p].data]}]_vars

\* at most one call is inside its locked section, and the lock is held
\* exactly while one is
OneInside ==
    /\ \A p, q \in Procs :
          p # q => ~(Inside(cacheCalls[p]) /\ Inside(cacheCalls[q]))
    /\ cacheLock <=> \E p \in Procs : Inside(cacheCalls[p])

C20_RoundTrip ==
    [][\A p \in Procs :
          /\ (LoadEnds(p) /\ persisted.known) =>
                 /\ cacheCalls'[p].result = "loaded"
                 /\ cacheCalls'[p].value = persisted.value
          /\ SaveReturns(p) =>
                 /\ tmpFile' = Absent
                 /\ bakFile' = Absent]_vars

----------------------------------------------------------------------------
(* Properties of embedChunks (EmbedSpec) *)

\* C22: every chunk is tried in the first pass and in at most one retry
\* pass, so embedChunks makes at most 2 x (fallbackCount + 1) x
\* (maxRetries + 1) fetches for one chunk, whatever the backend answers.
C22_OneShotRetry ==
    /\ embed.pass <= 1
    /\ \A c \in DOMAIN embed.calls :
          embed.calls[c] <= 2 * (FallbackCount + 1) * (MaxRetries + 1)

\* the results that carry chunk c
ResultsOf(c) == {i \in 1..Len(embed.results) : embed.results[i].chunk = c}

----------------------------------------------------------------------------
(* Properties of chunkFile (ChunkSpec) *)

\* the depths of the heading stack grow strictly from bottom to top
Nested(headingStack) ==
    \A i, j \in 1..Len(headingStack) :
        i < j => HeadingLevel(headingStack[i]) < HeadingLevel(headingStack[j])

\* the line reduce handles in this step
LineAtHand == chunker.lines[chunker.pos]

\* the open headings that are less deep than the line at hand
StillOpen(h) == HeadingLevel(h) < HeadingLevel(LineAtHand)

\* the breadcrumb of the two paths
Breadcrumb ==
    IF chunker.filePath = <<"vault/", "a", ".md">> THEN <<"a">> ELSE <<"d", " > ", "a">>

\* C24: when a heading line of depth d is handled, every open heading of
\* depth >= d is popped and the line is pushed, so the depths of the stack
\* grow strictly from bottom to top; the chunk the heading starts is the
\* breadcrumb of the path followed by that stack, one heading per line.
C24_ChunkNesting ==
    /\ []Nested(chunker.acc.headingStack)
    /\ [][(chunker.pc = "reducing" /\ HeadingLevel(LineAtHand) > 0) =>
            /\ chunker'.acc.headingStack =
                   Append(SelectSeq(chunker.acc.headingStack, StillOpen), LineAtHand)
            /\ chunker'.acc.chunks[Len(chunker'.acc.chunks)] =
                   Breadcrumb \o <<Newline>> \o Join(chunker'.acc.headingStack, Newline)]_vars

\* the document "#", "##", "#" on three lines gives three chunks: the second
\* carries both open headings, the third only its own
C24_Witness ==
    /\ chunker.pc = "returned"
    /\ chunker.content = <<Hash, Newline, Hash, Hash, Newline, Hash>>
    /\ chunker.filePath = <<"vault/", "a", ".md">>
    /\ chunker.result = << <<"a", Newline, Hash>>,
                           <<"a", Newline, Hash, Newline, Hash, Hash>>,
                           <<"a", Newline, Hash>> >>

\* the lines of the document that start with "#"
HeadingLines(lines) == {i \in 1..Len(lines) : lines[i] # <<>> /\ lines[i][1] = Hash}

\* C25: chunkFile returns no empty chunk; a document without a heading
\* line, the empty one included, gives one chunk; in general there is one
\* chunk for each heading line and one more when the first line is not a
\* heading.
C25_ChunkCount ==
    chunker.pc = "returned" =>
        LET lines == Split(chunker.content, Newline)
        IN  /\ \A i \in 1..Len(chunker.result) : chunker.result[i] # <<>>
            /\ HeadingLines(lines) = {} => Len(chunker.result) = 1
            /\ Len(chunker.result) =
                   Cardinality(HeadingLines(lines))
                   + (IF 1 \in HeadingLines(lines) THEN 0 ELSE 1)

\* a document of two headings with a line of text in between, and nothing
\* before the first heading, has given two chunks
C25_Witness ==
    /\ chunker.pc = "returned"
    /\ chunker.content = <<Hash, Newline, "x", Newline, Hash>>
    /\ Len(chunker.result) = 2

----------------------------------------------------------------------------
(* Properties of searchContent (SearchSpec) *)

\* the places of the candidates with a score of at least the minimum
AboveFloor == {p \in 1..Len(search.candidates) : search.candidates[p].score >= MinScore}

SmallerOf(a, b) == IF a < b THEN a ELSE b

\* C26: every result of searchContent has a score of at least the minimum,
\* there are at most limit results, and they are the first limit candidates
\* that reach the minimum, in the order of the index, out of 2 x limit
\* candidates asked for; a candidate below the minimum is left out also
\* when fewer than limit results remain.
C26_ScoreFloorAndLimit ==
    (search.pc = "returned" /\ search.failed = "none") =>
        /\ search.topK = 2 * Limit
        /\ Len(search.result) = SmallerOf(Limit, Cardinality(AboveFloor))
        /\ \A i \in 1..Len(search.result) :
              LET p == search.result[i].id
              IN  /\ search.result[i].score = search.candidates[p].score
                  /\ search.result[i].score >= MinScore
                  /\ Cardinality({q \in AboveFloor : q < p}) = i - 1

\* the index answered with one good candidate, nine below the minimum and
\* ten good ones: the ten results skip the nine and leave the last one out
C26_Witness ==
    /\ search.pc = "returned"
    /\ Len(search.candidates) = 2 * Limit
    /\ Len(search.result) = Limit
    /\ search.result[1].id = 1
    /\ search.result[2].id = Limit + 1
    /\ Cardinality(AboveFloor) = Limit + 1

\* C27: when queryItems fails because the index holds too few documents,
\* searchContent returns no results and does not throw; every other error
\* of isIndexCreated, createIndex, queryOllama and queryItems is thrown to
\* the caller.
C27_UnderfullIndex ==
    /\ (search.failed = "query" /\ search.message = TooSmallError) =>
          (search.pc = "returned" /\ search.result = <<>>)
    /\ (search.failed # "none" /\ search.message # TooSmallError) =>
          search.pc = "threw"
    /\ search.pc = "threw" => search.failed # "none"

\* queryItems failed on an index of too few documents and searchContent
\* returned the empty list
C27_Witness ==
    /\ search.pc = "returned"
    /\ search.failed = "query"
    /\ search.message = TooSmallError
    /\ search.result = <<>>

----------------------------------------------------------------------------
(* Properties of cleanupBackups (BackupSpec) *)

\* the backups among the entries
BackupSet(entries) == {entries[i] : i \in {j \in 1..Len(entries) : entries[j].valid}}

\* C28: when cleanupBackups is done and more than maxBackups backups were
\* there, maxBackups of them remain, none older than a removed one; when at
\* most maxBackups were there, none is removed.
C28_BackupRetention ==
    backups.pc = "returned" =>
        LET before == BackupSet(backups.found)
            after  == BackupSet(backups.entries)
        IN  IF Cardinality(before) > MaxBackups
            THEN /\ Cardinality(after) = MaxBackups
                 /\ \A kept \in after : \A gone \in before \ after :
                       kept.time >= gone.time
            ELSE after = before

----------------------------------------------------------------------------
(* More properties of the lock (LockSpec) *)

\* the call of p takes a step that frees the lock or cancels its timer
FreesLock(p) ==
    /\ storeCalls'[p] # storeCalls[p]
    /\ \/ vectorStoreLock /\ ~vectorStoreLock'
       \/ vectorStoreLockTimeout.state = "pending" /\ vectorStoreLockTimeout' = NoTimer

\* C29: the lock is freed, and its timer cancelled, only by the operation
\* that holds it (or by the timer of that acquisition): an operation that
\* lost the lock to the timer does not, when it finishes, free the lock the
\* next operation has taken or cancel its timer.
C29_ReleaseOnlyByHolder ==
    [][\A p \in Procs : FreesLock(p) => lockOwner.proc = p]_vars

\* the call of p gives up in acquireLock in this step
AcquireFails(p) ==
    /\ Waiting(storeCalls[p])
    /\ storeCalls'[p].pc = "idle"
    /\ storeCalls'[p].result = "threw"

\* C30: a call of storeChunks never fails to get the lock because of the
\* lock it holds itself: acquireLock of storeChunks, optimizeVectorStore and
\* cleanupOrphanedVectors gives up only while another operation holds the
\* lock, however long the transaction of the call took.
C30_NoSelfBlock ==
    [][\A p \in Procs :
          AcquireFails(p) => (vectorStoreLock /\ lockOwner.proc \in Procs \ {p})]_vars

\* a call with nobody else around has waited the whole 5000 ms in the
\* acquireLock of cleanupOrphanedVectors, and the timer of its own lock has
\* just freed it
C30_Witness ==
    /\ storeCalls[1].pc = "cleanAcquire"
    /\ storeCalls[1].waited = LockTimeout
    /\ storeCalls[2] = IdleCall
    /\ ~vectorStoreLock
    /\ vectorStoreLockTimeout = Fired

\* C31: locks are never taken reentrantly: no call of storeChunks stands in
\* acquireLock (its own, or that of optimizeVectorStore or
\* cleanupOrphanedVectors which it calls) while the store lock is held by
\* that same call.
C31_NoReentrantRequest ==
    \A p \in Procs :
        ~(Waiting(storeCalls[p]) /\ vectorStoreLock /\ lockOwner.proc = p)

----------------------------------------------------------------------------
(* More properties of the queue (QueueSpec) *)

\* the entries handed to handleFileEvent whose processing has not completed:
\* the one in the try body, those dequeued for dispatch, those that wait
Unfinished ==
    Range(inFlight) \cup Range(Dequeued(writes)) \cup Range(immediates)
        \cup Range(fileQueue)

\* C32: no accepted event is lost by a crash: whenever no write of the queue
\* file is in progress, every entry handed to handle whose processing has
\* not completed (also the one in flight and one dequeued but not yet
\* dispatched) is in the queue file, where recoverQueue finds it.
C32_NoEventLost ==
    (pcMain = "watching" /\ writes = <<>>)
        => Unfinished \subseteq Range(LoadQueue(queueFile))

\* C33: a non-empty in-memory queue never sits idle: an event is in flight,
\* or the dispatch of a dequeued entry is pending (the completion phase or
\* recoverQueue awaits saveQueue, or a setImmediate callback is scheduled).
C33_NoStrandedEntries ==
    fileQueue # <<>> =>
        inFlight # <<>> \/ Dequeued(writes) \o immediates # <<>>

\* nothing is in flight and the flag is free while an entry waits in the
\* queue: the callback that dispatches the dequeued entry is scheduled
C33_Witness ==
    /\ fileQueue # <<>> /\ inFlight = <<>> /\ ~isProcessingFile
    /\ writes = <<>> /\ immediates # <<>> /\ arrived

----------------------------------------------------------------------------
(* Properties of the handlers across documents (FrameSpec) *)

\* the cache records of the document d: the records under its relative and
\* its absolute path
CacheOf(d, c) == Restrict(c, {k \in DOMAIN c : Relative(k) = d})

\* the event completed in this step left the document d alone
LeftAlone(d) ==
    /\ CacheOf(d, cache') = CacheOf(d, cache)
    /\ RecordsOf(d, index') = RecordsOf(d, index)

\* C34: events touch only their own document: processing an add, change or
\* unlink event for path p leaves the cache records and the vector records
\* of every other document unchanged, also of a document whose path has p
\* as a prefix, and also when the loadCache of the add fails.
C34_OwnDocumentOnly ==
    [][CompleteStep =>
          \A d \in FrameDocs \ {Relative(last'.filePath)} : LeftAlone(d)]_vars

----------------------------------------------------------------------------
(* Properties of the side text files (TextsSpec) *)

\* searchContent fills in the text of a result in this step, and readFile
\* returned
Hydrated == texts'.hydrated # texts.hydrated /\ texts'.hydrated.readable

\* C35: hydration round trip: for every record that storeChunks stored and
\* that was not deleted or replaced since, the text that searchContent reads
\* through metadata.documentId is the chunk text storeChunks wrote for that
\* record; the side files of two documents are never the same file.
C35_HydrationRoundTrip ==
    [][Hydrated => texts'.hydrated.text = texts.wrote[texts'.hydrated.id]]_vars

----------------------------------------------------------------------------
(* Properties of the rate limiter (LimiterSpec) *)

\* the calls admitted in the time window that starts at time t
AdmittedFrom(t) ==
    {j \in 1..Len(limiter.admitted) :
        t <= limiter.admitted[j] /\ limiter.admitted[j] < t + TimeWindow}

\* C36: rate limiter quota: in every interval of length timeWindow at most
\* maxRequests calls of waitForSlot are admitted, a call being admitted at
\* the moment waitForSlot returns, whether the calls wait for one another or
\* not.
C36_Quota ==
    \A i \in 1..Len(limiter.admitted) :
        Cardinality(AdmittedFrom(limiter.admitted[i])) <= MaxRequests

----------------------------------------------------------------------------
(* Properties of retryWithBackoff (RetrySpec) *)

RECURSIVE Power(_, _)
Power(b, e) == IF e = 0 THEN 1 ELSE b * Power(b, e - 1)

\* min(initialDelay x factor^(k-1), maxDelay)
ClaimedDelay(config, k) ==
    SmallerOfTwo(config.initialDelay * Power(config.factor, k - 1), config.maxDelay)

\* operation is called at most maxRetries + 1 times; a call that returned
\* made one invocation more than it waited; a call that threw made all
\* maxRetries + 1 and waited maxRetries times, not once more after the last
RetryBound ==
    /\ retry.invocations <= retry.config.maxRetries + 1
    /\ retry.pc \in {"operation", "returned", "threw"} =>
           Len(retry.waited) = retry.invocations - 1
    /\ retry.pc = "threw" => retry.invocations = retry.config.maxRetries + 1

\* the k-th retry was preceded by a wait of the claimed length
ClaimedWaits ==
    \A k \in 1..Len(retry.waited) : retry.waited[k] = ClaimedDelay(retry.config, k)

----------------------------------------------------------------------------
(* Properties of optimizeVectorStore (OptimizeSpec) *)

\* the optimizeVectorStore of call p, which has listed the records, ends in
\* this step
OptimizeEnds(p) ==
    storeCalls[p].pc = "reinsert" /\ storeCalls'[p].pc # "reinsert"

\* C38: optimize preserves the records: when optimizeVectorStore returns or
\* raises after it listed the records, the index holds exactly the records
\* it listed, and after a run that succeeded operationCount is 0.
C38_OptimizePreserves ==
    [][\A p \in Procs :
          OptimizeEnds(p) =>
              /\ index' = storeCalls[p].all
              /\ storeCalls'[p].pc = "cleanAcquire" => operationCount' = 0]_vars

----------------------------------------------------------------------------
(* Properties of streamFromOllama (StreamSpec) *)

\* the tokens that the fragments of a body carry, in the order of the body
RECURSIVE TokensIn(_)
TokensIn(lines) ==
    IF lines = <<>> THEN <<>>
    ELSE (IF JsonParse(Head(lines)).kind = "token"
          THEN <<JsonParse(Head(lines)).token>> ELSE <<>>) \o TokensIn(Tail(lines))

TokensOf(body) == TokensIn(FilterChunks(Split(body, Newline)))

\* C39: streaming forwards every token in order: however the response is
\* split into reads, when streamFromOllama has ended, onToken was called
\* once for every fragment that carries a token, in the order of the
\* stream, also when one read delivered several fragments.
C39_TokensForwarded ==
    stream.pc \in {"returned", "threw"} =>
        stream.forwarded = TokensOf(stream.body)

====
